---- MODULE Spec2Model ----
(***************************************************************************)
(* LLM provider adapters (Anthropic, Grok, Groq) and the ModelSourceType   *)
(* resolver of SuperAGI.  A vendor SDK is an environment that answers one  *)
(* request with a response or an exception; every adapter method is one    *)
(* action that consumes the vendor's answer and records what it returned   *)
(* or raised and which requests it sent.                                   *)
(***************************************************************************)
EXTENDS Integers, Sequences, FiniteSets, TLC

VARIABLES ANTHROPIC_AVAILABLE, self, constructed, call, users,
          environ, config_file, config_instance, tasks

vars == <<ANTHROPIC_AVAILABLE, self, constructed, call, users,
          environ, config_file, config_instance, tasks>>

\* Longest message list handed to chat_completion.
MaxMessages == 1

\* Longest chunk stream the vendor sends to stream_chat_completion.
MaxChunks == 2

----------------------------------------------------------------------------
(* Python values.  None is the empty tuple, any other optional value v is  *)
(* the one-element tuple <<v>>.  A Python string is a TLA+ string, except  *)
(* where the code looks at its characters: there it is a tuple of          *)
(* one-character strings.                                                  *)

None == <<>>

Some(v) == <<v>>

\* Python truthiness of an optional string: None and "" are falsy.
Truthy(o) == o # None /\ o[1] # ""

\* A variant of "a or b" that falls back only on None: a if a is not None else b
PyOrNoneOnly(a, b) == IF a # None THEN a ELSE b

\* a or b
PyOr(a, b) == IF Truthy(a) THEN a ELSE b

Exc(cls, msg) == [cls |-> cls, msg |-> msg]

Returned(v) == [kind |-> "return", value |-> v]

Raised(e) == [kind |-> "raise", exc |-> e]

----------------------------------------------------------------------------
(* superagi/types/model_source_types.py                                    *)
\* The members of the enum in definition order; name and value as characters.
ModelSourceType ==
  << [member |-> "GooglePalm",
      name |-> <<"G", "o", "o", "g", "l", "e", "P", "a", "l", "m">>,
      value |-> <<"G", "o", "o", "g", "l", "e", " ", "P", "a", "l", "m">>],
     [member |-> "OpenAI",
      name |-> <<"O", "p", "e", "n", "A", "I">>,
      value |-> <<"O", "p", "e", "n", "A", "i">>],
     [member |-> "Replicate",
      name |-> <<"R", "e", "p", "l", "i", "c", "a", "t", "e">>,
      value |-> <<"R", "e", "p", "l", "i", "c", "a", "t", "e">>],
     [member |-> "HuggingFace",
      name |-> <<"H", "u", "g", "g", "i", "n", "g", "F", "a", "c", "e">>,
      value |-> <<"H", "u", "g", "g", "i", "n", "g", " ", "F", "a", "c", "e">>],
     [member |-> "LocalLLM",
      name |-> <<"L", "o", "c", "a", "l", "L", "L", "M">>,
      value |-> <<"L", "o", "c", "a", "l", " ", "L", "L", "M">>],
     [member |-> "Anthropic",
      name |-> <<"A", "n", "t", "h", "r", "o", "p", "i", "c">>,
      value |-> <<"A", "n", "t", "h", "r", "o", "p", "i", "c">>] >>

LowerCase == <<"a","b","c","d","e","f","g","h","i","j","k","l","m","n","o","p","q","r","s","t","u","v","w","x","y","z">>

UpperCase == <<"A","B","C","D","E","F","G","H","I","J","K","L","M","N","O","P","Q","R","S","T","U","V","W","X","Y","Z">>

UpperChar(c) ==
  IF \E i \in 1..Len(LowerCase) : LowerCase[i] = c
  THEN UpperCase[CHOOSE i \in 1..Len(LowerCase) : LowerCase[i] = c]
  ELSE c

\* str.upper()
Upper(s) == [i \in 1..Len(s) |-> UpperChar(s[i])]

IsNotSpace(c) == c # " "

\* str.replace(" ", "")
ReplaceSpaces(s) == SelectSeq(s, IsNotSpace)

\* A variant of the normalisation that keeps the spaces: name.upper()
NormaliseNameKeepSpaces(name) == Upper(name)

\* name.upper().replace(" ", "")
NormaliseName(name) == ReplaceSpaces(Upper(name))

\* A variant of the member test that forgets member.upper(): name == member
MemberMatchesCaseSensitive(name, member) == name = member.name

\* The member test of the loop: name == member.upper()
MemberMatches(name, member) == name = Upper(member.name)

\* for member in cls.__members__: the first member from index i on that matches, 0 if none.
RECURSIVE FirstMatch(_, _)
FirstMatch(name, i) ==
  IF i > Len(ModelSourceType) THEN 0
  ELSE IF MemberMatches(name, ModelSourceType[i]) THEN i
  ELSE FirstMatch(name, i + 1)

get_model_source_type(name) ==
  LET n == NormaliseName(name)
      i == FirstMatch(n, 1)
  IN IF i # 0
     THEN Returned(ModelSourceType[i].member)
     ELSE Raised(Exc("ValueError", n \o <<" is not a valid vector store name.">>))

\* ModelSourceType.__str__
Str(member) == member.value

\* The names handed to get_model_source_type.
SourceNames ==
  { <<"G", "o", "o", "g", "l", "e", " ", "P", "a", "l", "m">>,
    <<"O", "P", "E", "N", "A", "I">>,
    <<"A", "N", "T", "H", "R", "O", "P", "I", "C">>,
    <<"I", "N", "V", "A", "L", "I", "D", "S", "O", "U", "R", "C", "E">>,
    <<"o", "p", "e", "n", " ", "a", "i">>,
    <<" ", "L", "o", "c", "a", "l", " ", "L", "L", "M", " ">>,
    <<"h", "u", "g", "g", "i", "n", "g", " ", "f", "a", "c", "e">>,
    <<"H", "u", "g", "g", "i", "n", "g", "_", "F", "a", "c", "e">>,
    <<"G", "r", "o", "k">>,
    <<"G", "r", "o", "q">>,
    <<"G", "R", "O", "Q">>,
    <<>>,
    <<" ">>,
    <<"O", "p", "e", "n", "A", "i">>,
    <<"R", "e", "p", "l", "i", "c", "a", "t", "e">>,
    <<"r", "e", "p", "l", "i", "c", "a", "t", "e", " ", "x">> }

\* Python's "x in list"
In(x, list) == \E i \in 1..Len(list) : list[i] = x

open_ai_models ==
  << "gpt-4", "gpt-4-32k", "gpt-4-0125-preview", "gpt-4-1106-preview",
     "gpt-4-turbo", "gpt-4-turbo-2024-04-09", "gpt-4-turbo-preview",
     "gpt-4o", "gpt-4o-2024-08-06", "gpt-4o-mini", "gpt-4o-mini-2024-07-18",
     "o1-preview", "o1-mini",
     "gpt-3.5-turbo", "gpt-3.5-turbo-16k", "gpt-3.5-turbo-0125",
     "gpt-3.5-turbo-1106", "gpt-3.5-turbo-instruct" >>

google_models ==
  << "gemini-1.5-pro", "gemini-1.5-flash", "gemini-1.0-pro",
     "gemini-pro", "gemini-pro-vision",
     "models/gemini-1.5-pro", "models/gemini-1.5-flash", "models/gemini-1.0-pro",
     "models/gemini-pro", "models/gemini-pro-vision",
     "google-palm-bison-001", "models/chat-bison-001", "models/text-bison-001" >>

replicate_models ==
  << "meta/llama-2-70b-chat", "meta/llama-2-13b-chat", "meta/llama-2-7b-chat",
     "meta/codellama-70b-instruct", "meta/codellama-34b-instruct", "meta/codellama-13b-instruct",
     "replicate-llama13b-v2-chat", "llama-2-70b-chat", "llama-2-13b-chat", "llama-2-7b-chat",
     "codellama-34b-instruct", "codellama-13b-instruct" >>

anthropic_models ==
  << "claude-3-5-sonnet-20241022", "claude-3-5-sonnet-20240620", "claude-3-5-haiku-20241022",
     "claude-3-opus-20240229", "claude-3-sonnet-20240229", "claude-3-haiku-20240307",
     "claude-2.1", "claude-2.0", "claude-instant-1.2" >>

\* A variant of the resolver without the Anthropic list.
get_model_source_from_model_NoAnthropic(model_name) ==
  IF In(model_name, open_ai_models) THEN Returned("OpenAI")
  ELSE IF In(model_name, google_models) THEN Returned("GooglePalm")
  ELSE IF In(model_name, replicate_models) THEN Returned("Replicate")
  ELSE Returned("OpenAI")

get_model_source_from_model(model_name) ==
  IF In(model_name, open_ai_models) THEN Returned("OpenAI")
  ELSE IF In(model_name, google_models) THEN Returned("GooglePalm")
  ELSE IF In(model_name, replicate_models) THEN Returned("Replicate")
  ELSE IF In(model_name, anthropic_models) THEN Returned("Anthropic")
  ELSE Returned("OpenAI")

\* The model names of the Grok and Groq adapters (grok.py, groq.py: get_models).
grok_get_models == << "grok-beta", "grok-1" >>

groq_get_models ==
  << "llama-3.1-70b-versatile", "llama-3.1-8b-instant", "llama-3-70b-8192",
     "llama-3-8b-8192", "mixtral-8x7b-32768", "gemma-7b-it" >>

anthropic_get_models ==
  << "claude-3-5-sonnet-20241022", "claude-3-5-sonnet-20240620", "claude-3-5-haiku-20241022",
     "claude-3-opus-20240229", "claude-3-sonnet-20240229", "claude-3-haiku-20240307",
     "claude-2.1", "claude-2.0", "claude-instant-1.2" >>

Range(s) == { s[i] : i \in 1..Len(s) }

\* The model names handed to get_model_source_from_model: every listed name,
\* the names of the Grok and Groq adapters, and names in no list.
ModelNames ==
  Range(open_ai_models) \cup Range(google_models) \cup Range(replicate_models)
  \cup Range(anthropic_models) \cup Range(grok_get_models) \cup Range(groq_get_models)
  \cup { "unregistered-model", "", "GPT-4", "gpt-5" }

----------------------------------------------------------------------------
(* Python dictionaries with string keys are functions on a set of strings. *)

\* dict.get(key, default)
DictGet(d, key, default) == IF key \in DOMAIN d THEN d[key] ELSE default

\* "key" in dict
HasKey(d, key) == key \in DOMAIN d

----------------------------------------------------------------------------
(* The vendor SDKs.  A request is answered by an exception or a response.  *)
(* The exception classes are those of the anthropic and openai packages;   *)
(* Mro gives the classes an exception is an instance of.                   *)

Mro(cls) ==
  CASE cls = "RateLimitError" -> {"RateLimitError", "APIStatusError", "APIError", "Exception"}
    [] cls = "AuthenticationError" -> {"AuthenticationError", "APIStatusError", "APIError", "Exception"}
    [] cls = "APIConnectionError" -> {"APIConnectionError", "APIError", "Exception"}
    [] cls = "APIError" -> {"APIError", "Exception"}
    [] OTHER -> {cls, "Exception"}

\* isinstance(e, cls), the test of an except clause
IsInstance(e, cls) == cls \in Mro(e.cls)

\* The exceptions a vendor request raises.
VendorExceptions ==
  { Exc("RateLimitError", "429"), Exc("AuthenticationError", "401"),
    Exc("APIConnectionError", "Connection error."), Exc("APIError", "500"),
    Exc("TimeoutError", "timed out") }

VendorRaises == { [kind |-> "raise", exc |-> e] : e \in VendorExceptions }

\* Indexing an empty Python list.
IndexError == Exc("IndexError", "list index out of range")

\* The responses of anthropic's messages.create: a list of content blocks.
AnthropicResponses ==
  { [kind |-> "ok", content |-> c] :
      c \in { <<>>, << [text |-> "Hello!"] >>, << [text |-> "Hello!"], [text |-> "More"] >> } }

AnthropicReplies == VendorRaises \cup AnthropicResponses

\* The responses of openai's chat.completions.create: choices and optional usage.
Choice1 == [message |-> [content |-> "Hello from the model!", role |-> "assistant"],
            finish_reason |-> "stop"]

Choice2 == [message |-> [content |-> "Truncated", role |-> "assistant"],
            finish_reason |-> "length"]

Usage1 == [prompt_tokens |-> 10, completion_tokens |-> 5, total_tokens |-> 15]

OpenAIResponses ==
  { [kind |-> "ok", choices |-> c, usage |-> u] :
      c \in { <<>>, <<Choice1>>, <<Choice2, Choice1>> }, u \in { None, Some(Usage1) } }

OpenAIReplies == VendorRaises \cup OpenAIResponses

\* One chunk of a streamed response: its first-choice delta content, or no choice at all.
StreamChunks ==
  { [choices |-> c] :
      c \in { <<>>, << [delta |-> [content |-> None]] >>, << [delta |-> [content |-> Some("")]] >>,
              << [delta |-> [content |-> Some("a")]] >>, << [delta |-> [content |-> Some("b")]] >> } }

\* The messages of a conversation, in OpenAI format.
Messages ==
  { [role |-> "system", content |-> "Be brief"], [role |-> "system", content |-> ""],
    [role |-> "user", content |-> "Hi"] }

RECURSIVE SeqsUpTo(_, _)
SeqsUpTo(S, n) ==
  IF n = 0 THEN { <<>> }
  ELSE LET shorter == SeqsUpTo(S, n - 1)
       IN shorter \cup { Append(s, x) : s \in { t \in shorter : Len(t) = n - 1 }, x \in S }

MessageLists == SeqsUpTo(Messages, MaxMessages)

\* The keyword arguments a caller passes on to the vendor request.
NoKwargs == [max_tokens |-> None, stream |-> None]

Kwargs == { NoKwargs, [max_tokens |-> Some(1), stream |-> Some(FALSE)] }

----------------------------------------------------------------------------
(* superagi/llms/anthropic.py                                              *)

NoInstance == [cls |-> "none"]

Anthropic_init(available, api_key, model, temperature, max_tokens) ==
  IF ~available
  THEN [result |-> Raised(Exc("ImportError", "anthropic package is required for Anthropic LLM support. Install it with: pip install anthropic")),
        clients |-> <<>>]
  ELSE [result |-> Returned([cls |-> "Anthropic", max_tokens |-> max_tokens, api_key |-> api_key,
                             model |-> model, temperature |-> temperature,
                             client |-> [api_key |-> api_key]]),
        clients |-> << [api_key |-> api_key] >>]

IsNotSystem(message) == message.role # "system"

\* The messages appended to anthropic_messages by the conversion loop.
AnthropicMessages(messages) ==
  LET kept == SelectSeq(messages, IsNotSystem)
  IN [i \in 1..Len(kept) |-> [role |-> kept[i].role, content |-> kept[i].content]]

\* A variant of the conversion loop that keeps the first system message.
RECURSIVE SystemMessageFirst(_, _)
SystemMessageFirst(messages, acc) ==
  IF messages = <<>> THEN acc
  ELSE SystemMessageFirst(Tail(messages),
                          IF Head(messages).role = "system" /\ acc = ""
                          THEN Head(messages).content ELSE acc)

\* system_message after the conversion loop: the content of the last system message.
RECURSIVE SystemMessage(_, _)
SystemMessage(messages, acc) ==
  IF messages = <<>> THEN acc
  ELSE SystemMessage(Tail(messages),
                     IF Head(messages).role = "system" THEN Head(messages).content ELSE acc)

\* A variant of the token limit that falls back only on None:
\* max_tokens if max_tokens is not None else self.max_tokens
TokenLimitIsNotNone(inst, max_tokens) ==
  IF max_tokens # None THEN max_tokens[1] ELSE inst.max_tokens

\* max_tokens or self.max_tokens
TokenLimit(inst, max_tokens) ==
  IF max_tokens # None /\ max_tokens[1] # 0 THEN max_tokens[1] ELSE inst.max_tokens

\* The arguments of self.client.messages.create in chat_completion.
AnthropicRequest(inst, messages, max_tokens) ==
  LET system_message == SystemMessage(messages, "")
  IN [model |-> inst.model, max_tokens |-> TokenLimit(inst, max_tokens),
      temperature |-> Some(inst.temperature),
      system |-> IF system_message # "" THEN Some(system_message) ELSE None,
      messages |-> AnthropicMessages(messages)]

\* A variant of the except clauses with "except APIError" ahead of its subclasses.
AnthropicExceptApiFirst(e) ==
  IF IsInstance(e, "APIError")
  THEN [error |-> "ERROR_API", message |-> "API error: " \o e.msg]
  ELSE IF IsInstance(e, "RateLimitError")
  THEN [error |-> "ERROR_RATE_LIMIT", message |-> "Rate limit exceeded: " \o e.msg]
  ELSE IF IsInstance(e, "AuthenticationError")
  THEN [error |-> "ERROR_AUTHENTICATION", message |-> "Authentication error: " \o e.msg]
  ELSE [error |-> "ERROR_ANTHROPIC", message |-> "Anthropic exception: " \o e.msg]

\* The except clauses of chat_completion, in their order.
AnthropicExcept(e) ==
  IF IsInstance(e, "RateLimitError")
  THEN [error |-> "ERROR_RATE_LIMIT", message |-> "Rate limit exceeded: " \o e.msg]
  ELSE IF IsInstance(e, "AuthenticationError")
  THEN [error |-> "ERROR_AUTHENTICATION", message |-> "Authentication error: " \o e.msg]
  ELSE IF IsInstance(e, "APIError")
  THEN [error |-> "ERROR_API", message |-> "API error: " \o e.msg]
  ELSE [error |-> "ERROR_ANTHROPIC", message |-> "Anthropic exception: " \o e.msg]

\* The try block of chat_completion after the request: what it returns or raises.
AnthropicTry(reply) ==
  IF reply.kind = "raise" THEN Raised(reply.exc)
  ELSE IF Len(reply.content) = 0 THEN Raised(IndexError)
  ELSE Returned([response |-> reply, content |-> reply.content[1].text])

\* The requests chat_completion sends to the vendor.
AnthropicSent(inst, messages, max_tokens, reply) ==
  << AnthropicRequest(inst, messages, max_tokens) >>

Anthropic_chat_completion(inst, messages, max_tokens, reply) ==
  LET tried == AnthropicTry(reply)
  IN [result |-> IF tried.kind = "raise" THEN Returned(AnthropicExcept(tried.exc)) ELSE tried,
      sent |-> AnthropicSent(inst, messages, max_tokens, reply)]

Anthropic_verify_access_key(inst, reply) ==
  [result |-> Returned(reply.kind # "raise"),
   sent |-> << [model |-> inst.model, max_tokens |-> 10, temperature |-> None, system |-> None,
                messages |-> << [role |-> "user", content |-> "Hi"] >>] >>]

Anthropic_get_models(inst) == Returned(anthropic_get_models)

----------------------------------------------------------------------------
(* superagi/llms/grok.py                                                   *)

Grok_init(model, api_key, getenv) ==
  LET key == PyOr(api_key, getenv)
  IN IF ~Truthy(key)
     THEN [result |-> Raised(Exc("ValueError", "xAI API key is required. Set XAI_API_KEY environment variable or pass api_key parameter.")),
           clients |-> <<>>]
     ELSE [result |-> Returned([cls |-> "Grok", api_key |-> key[1], model |-> model,
                                client |-> [api_key |-> key[1], base_url |-> "https://api.x.ai/v1"]]),
           clients |-> << [api_key |-> key[1], base_url |-> "https://api.x.ai/v1"] >>]

\* The arguments of self.client.chat.completions.create.
OpenAIRequest(inst, messages, kwargs) ==
  [model |-> inst.model, messages |-> messages, kwargs |-> kwargs]

\* A variant of the response dictionary that copies the vendor's last choice
\* and passes the vendor's usage through.
OpenAITryLastChoice(reply) ==
  IF reply.kind = "raise" THEN Raised(reply.exc)
  ELSE IF Len(reply.choices) = 0 THEN Raised(IndexError)
  ELSE Returned(
         [choices |-> << [message |-> [content |-> reply.choices[Len(reply.choices)].message.content,
                                       role |-> reply.choices[Len(reply.choices)].message.role],
                          finish_reason |-> reply.choices[Len(reply.choices)].finish_reason] >>,
          usage |-> [prompt_tokens |-> IF reply.usage # None THEN reply.usage[1].prompt_tokens ELSE 0,
                     completion_tokens |-> IF reply.usage # None THEN reply.usage[1].completion_tokens ELSE 0,
                     total_tokens |-> IF reply.usage # None THEN reply.usage[1].total_tokens ELSE 0]])

\* The dictionary built from the vendor's response; indexing choices[0] may raise.
OpenAITry(reply) ==
  IF reply.kind = "raise" THEN Raised(reply.exc)
  ELSE IF Len(reply.choices) = 0 THEN Raised(IndexError)
  ELSE Returned(
         [choices |-> << [message |-> [content |-> reply.choices[1].message.content,
                                       role |-> reply.choices[1].message.role],
                          finish_reason |-> reply.choices[1].finish_reason] >>,
          usage |-> [prompt_tokens |-> IF reply.usage # None THEN reply.usage[1].prompt_tokens ELSE 0,
                     completion_tokens |-> IF reply.usage # None THEN reply.usage[1].completion_tokens ELSE 0,
                     total_tokens |-> IF reply.usage # None THEN reply.usage[1].total_tokens ELSE 0]])

\* A variant of Grok's except clause that returns an error dictionary.
GrokExceptReturnsError(e) ==
  Returned([error |-> "ERROR_GROK", message |-> "Grok API error: " \o e.msg])

\* except Exception as e: raise Exception(f"Grok API error: {str(e)}")
GrokExcept(e) == Raised(Exc("Exception", "Grok API error: " \o e.msg))

\* A variant that sends the request again when the vendor raises.
GrokSentRetry(inst, messages, kwargs, reply) ==
  IF reply.kind = "raise"
  THEN << OpenAIRequest(inst, messages, kwargs), OpenAIRequest(inst, messages, kwargs) >>
  ELSE << OpenAIRequest(inst, messages, kwargs) >>

GrokSent(inst, messages, kwargs, reply) == << OpenAIRequest(inst, messages, kwargs) >>

Grok_chat_completion(inst, messages, kwargs, reply) ==
  LET tried == OpenAITry(reply)
  IN [result |-> IF tried.kind = "raise" THEN GrokExcept(tried.exc) ELSE tried,
      sent |-> GrokSent(inst, messages, kwargs, reply)]

Grok_generate_text(inst, prompt, kwargs, reply) ==
  LET response == Grok_chat_completion(inst, << [role |-> "user", content |-> prompt] >>, kwargs, reply)
  IN [result |-> IF response.result.kind = "raise" THEN response.result
                 ELSE Returned(response.result.value.choices[1].message.content),
      sent |-> response.sent]

\* A variant of verify_access_key without the try/except around the probe.
Grok_verify_access_key_NoExcept(inst, reply) ==
  LET text == Grok_generate_text(inst, "Hello", [max_tokens |-> Some(1), stream |-> None], reply)
  IN [result |-> IF text.result.kind = "raise" THEN text.result ELSE Returned(TRUE),
      sent |-> text.sent]

Grok_verify_access_key(inst, reply) ==
  LET text == Grok_generate_text(inst, "Hello", [max_tokens |-> Some(1), stream |-> None], reply)
  IN [result |-> Returned(text.result.kind # "raise"), sent |-> text.sent]

Grok_get_models(inst) == Returned(grok_get_models)

grok_token_limits == ("grok-beta" :> 131072) @@ ("grok-1" :> 131072)

Grok_get_token_limit(inst) == Returned(DictGet(grok_token_limits, inst.model, 131072))

----------------------------------------------------------------------------
(* superagi/llms/groq.py                                                   *)

Groq_init(model, api_key, getenv) ==
  LET key == PyOr(api_key, getenv)
  IN IF ~Truthy(key)
     THEN [result |-> Raised(Exc("ValueError", "Groq API key is required. Set GROQ_API_KEY environment variable or pass api_key parameter.")),
           clients |-> <<>>]
     ELSE [result |-> Returned([cls |-> "Groq", api_key |-> key[1], model |-> model,
                                client |-> [api_key |-> key[1], base_url |-> "https://api.groq.com/openai/v1"]]),
           clients |-> << [api_key |-> key[1], base_url |-> "https://api.groq.com/openai/v1"] >>]

\* except Exception as e: raise Exception(f"Groq API error: {str(e)}")
GroqExcept(e) == Raised(Exc("Exception", "Groq API error: " \o e.msg))

GroqSent(inst, messages, kwargs, reply) == << OpenAIRequest(inst, messages, kwargs) >>

Groq_chat_completion(inst, messages, kwargs, reply) ==
  LET tried == OpenAITry(reply)
  IN [result |-> IF tried.kind = "raise" THEN GroqExcept(tried.exc) ELSE tried,
      sent |-> GroqSent(inst, messages, kwargs, reply)]

Groq_generate_text(inst, prompt, kwargs, reply) ==
  LET response == Groq_chat_completion(inst, << [role |-> "user", content |-> prompt] >>, kwargs, reply)
  IN [result |-> IF response.result.kind = "raise" THEN response.result
                 ELSE Returned(response.result.value.choices[1].message.content),
      sent |-> response.sent]

Groq_verify_access_key(inst, reply) ==
  LET text == Groq_generate_text(inst, "Hello", [max_tokens |-> Some(1), stream |-> None], reply)
  IN [result |-> Returned(text.result.kind # "raise"), sent |-> text.sent]

Groq_get_models(inst) == Returned(groq_get_models)

\* A variant of Groq's table that lacks the mixtral entry.
groq_token_limits_NoMixtral ==
  ("llama-3.1-70b-versatile" :> 131072) @@ ("llama-3.1-8b-instant" :> 131072)
  @@ ("llama-3-70b-8192" :> 8192) @@ ("llama-3-8b-8192" :> 8192)
  @@ ("gemma-7b-it" :> 8192)

groq_token_limits ==
  ("llama-3.1-70b-versatile" :> 131072) @@ ("llama-3.1-8b-instant" :> 131072)
  @@ ("llama-3-70b-8192" :> 8192) @@ ("llama-3-8b-8192" :> 8192)
  @@ ("mixtral-8x7b-32768" :> 32768) @@ ("gemma-7b-it" :> 8192)

Groq_get_token_limit(inst) == Returned(DictGet(groq_token_limits, inst.model, 8192))

----------------------------------------------------------------------------
(* stream_chat_completion of Grok and Groq is a generator: creating it     *)
(* runs nothing, the first next() sends the request with stream=True, and  *)
(* every vendor chunk is then yielded, skipped or turned into an error.    *)

\* A variant that sends the keyword arguments as the caller passed them.
StreamKwargsAsPassed(kwargs) == kwargs

\* kwargs["stream"] = True
StreamKwargs(kwargs) == [kwargs EXCEPT !.stream = Some(TRUE)]

\* The chunk the generator yields for a vendor chunk.
YieldedChunk(chunk) ==
  [choices |-> << [delta |-> [content |-> chunk.choices[1].delta.content[1]]] >>]

\* except Exception as e: raise Exception(f"<name> streaming error: {str(e)}")
StreamExcept(cls, e) == Raised(Exc("Exception", cls \o " streaming error: " \o e.msg))

\* A variant in which chat_completion falls back to another model by assigning self.model.
FieldsAfterFallback(inst, op) ==
  IF op = "chat_completion" THEN [inst EXCEPT !.model = "fallback-model"] ELSE inst

\* The fields of the instance after a method has run: no method assigns to self.
FieldsAfter(inst, op) == inst

----------------------------------------------------------------------------
(* The state machine.  ANTHROPIC_AVAILABLE is the module flag set by the   *)
(* import of anthropic.py; self is the adapter instance in use and         *)
(* constructed its fields as the constructor left them; call is the record *)
(* of the last call: its arguments, the vendor's reply, what it returned   *)
(* or raised and the requests it sent.  os.getenv is an input of the       *)
(* constructors.                                                           *)

ApiKeyArgs == { None, Some(""), Some("arg-key") }

EnvValues == { None, Some(""), Some("env-key") }

GrokModels == Range(grok_get_models) \cup { "grok-2" }

GroqModels == Range(groq_get_models) \cup { "llama-3.1-405b-reasoning" }

\* Before any construction: the module is imported, no adapter exists.
InitConstruct ==
  /\ ANTHROPIC_AVAILABLE \in BOOLEAN
  /\ self = NoInstance
  /\ constructed = NoInstance
  /\ call = [op |-> "none"]
  /\ users = <<>>
  /\ environ = <<>>
  /\ config_file = None
  /\ config_instance = None
  /\ tasks = <<>>

\* A constructor that raises leaves no instance behind; one that returns binds it.
Construct(name, args, out) ==
  /\ self' = IF out.result.kind = "return" THEN out.result.value ELSE self
  /\ constructed' = IF out.result.kind = "return" THEN out.result.value ELSE constructed
  /\ call' = [op |-> "__init__", cls |-> name, args |-> args,
              result |-> out.result, clients |-> out.clients]
  /\ UNCHANGED <<ANTHROPIC_AVAILABLE, users,
               environ, config_file, config_instance, tasks>>

AnthropicInit ==
  \E max_tokens \in { 8192, 1024 } :
    Construct("Anthropic", [api_key |-> Some("sk-ant"), getenv |-> None],
              Anthropic_init(ANTHROPIC_AVAILABLE, "sk-ant", "claude-3-5-sonnet-20241022",
                             "0.6", max_tokens))

GrokInit ==
  \E model \in GrokModels, api_key \in ApiKeyArgs, getenv \in EnvValues :
    Construct("Grok", [api_key |-> api_key, getenv |-> getenv],
              Grok_init(model, api_key, getenv))

GroqInit ==
  \E model \in GroqModels, api_key \in ApiKeyArgs, getenv \in EnvValues :
    Construct("Groq", [api_key |-> api_key, getenv |-> getenv],
              Groq_init(model, api_key, getenv))

\* The instances the constructors return for the arguments of the unit tests:
\* the key passed as api_key, or read from the environment.
Instances ==
  { out.result.value :
      out \in { o \in { Anthropic_init(TRUE, "sk-ant", "claude-3-5-sonnet-20241022", "0.6", mt) :
                          mt \in { 8192, 1024 } }
                      \cup { Grok_init("grok-beta", k[1], k[2]) :
                               k \in { <<Some("arg-key"), None>>, <<None, Some("env-key")>> } }
                      \cup { Groq_init("llama-3.1-70b-versatile", k[1], k[2]) :
                               k \in { <<Some("arg-key"), None>>, <<None, Some("env-key")>> } } :
                   o.result.kind = "return" } }

\* After construction: one adapter instance, no call made on it yet.
Init ==
  /\ ANTHROPIC_AVAILABLE = TRUE
  /\ self \in Instances
  /\ constructed = self
  /\ call = [op |-> "none"]
  /\ users = <<>>
  /\ environ = <<>>
  /\ config_file = None
  /\ config_instance = None
  /\ tasks = <<>>

\* A variant of the Anthropic class body that also lacks get_models.
AnthropicMethodsNoGetModels ==
  { "__init__", "get_source", "get_api_key", "get_model", "chat_completion",
    "verify_access_key" }

\* The methods each adapter class defines in its body.
AnthropicMethods ==
  { "__init__", "get_source", "get_api_key", "get_model", "chat_completion",
    "verify_access_key", "get_models" }

GrokMethods ==
  { "__init__", "get_models", "get_model", "chat_completion", "generate_text",
    "get_token_limit", "stream_chat_completion", "verify_access_key" }

GroqMethods ==
  { "__init__", "get_models", "get_model", "chat_completion", "generate_text",
    "get_token_limit", "stream_chat_completion", "verify_access_key",
    "get_inference_speed" }

\* BaseLlm is the abstract base of the adapters: it implements no operation.
BaseLlmMethods == { }

ClassMethods(cls) ==
  CASE cls = "Anthropic" -> AnthropicMethods
    [] cls = "Grok" -> GrokMethods
    [] cls = "Groq" -> GroqMethods
    [] OTHER -> { }

\* Attribute lookup of instance.op: the class body first, then the base class.
HasMethod(cls, op) == op \in ClassMethods(cls) \cup BaseLlmMethods

AttributeError(cls, op) ==
  Exc("AttributeError", "'" \o cls \o "' object has no attribute '" \o op \o "'")

\* A method call on the instance: its record, and the fields it leaves.
Method(op, args, reply, out) ==
  /\ HasMethod(self.cls, op)
  /\ call' = [op |-> op, cls |-> self.cls, args |-> args, reply |-> reply,
              result |-> out.result, sent |-> out.sent]
  /\ self' = FieldsAfter(self, op)
  /\ UNCHANGED <<ANTHROPIC_AVAILABLE, constructed, users,
               environ, config_file, config_instance, tasks>>

NoReply == [kind |-> "none"]

AnthropicChatCompletion ==
  /\ self.cls = "Anthropic"
  /\ \E messages \in MessageLists, max_tokens \in { None, Some(0), Some(256) },
        reply \in AnthropicReplies :
       Method("chat_completion", [messages |-> messages, max_tokens |-> max_tokens], reply,
              Anthropic_chat_completion(self, messages, max_tokens, reply))

AnthropicVerifyAccessKey ==
  /\ self.cls = "Anthropic"
  /\ \E reply \in AnthropicReplies :
       Method("verify_access_key", <<>>, reply, Anthropic_verify_access_key(self, reply))

AnthropicGetModels ==
  /\ self.cls = "Anthropic"
  /\ Method("get_models", <<>>, NoReply, [result |-> Anthropic_get_models(self), sent |-> <<>>])

GrokChatCompletion ==
  /\ self.cls = "Grok"
  /\ \E messages \in MessageLists, kwargs \in Kwargs, reply \in OpenAIReplies :
       Method("chat_completion", [messages |-> messages, kwargs |-> kwargs], reply,
              Grok_chat_completion(self, messages, kwargs, reply))

GrokGenerateText ==
  /\ self.cls = "Grok"
  /\ \E kwargs \in Kwargs, reply \in OpenAIReplies :
       Method("generate_text", [prompt |-> "Say hi", kwargs |-> kwargs], reply,
              Grok_generate_text(self, "Say hi", kwargs, reply))

GrokVerifyAccessKey ==
  /\ self.cls = "Grok"
  /\ \E reply \in OpenAIReplies :
       Method("verify_access_key", <<>>, reply, Grok_verify_access_key(self, reply))

GrokGetModels ==
  /\ self.cls = "Grok"
  /\ Method("get_models", <<>>, NoReply, [result |-> Grok_get_models(self), sent |-> <<>>])

GrokGetTokenLimit ==
  /\ self.cls = "Grok"
  /\ Method("get_token_limit", <<>>, NoReply, [result |-> Grok_get_token_limit(self), sent |-> <<>>])

GroqChatCompletion ==
  /\ self.cls = "Groq"
  /\ \E messages \in MessageLists, kwargs \in Kwargs, reply \in OpenAIReplies :
       Method("chat_completion", [messages |-> messages, kwargs |-> kwargs], reply,
              Groq_chat_completion(self, messages, kwargs, reply))

GroqGenerateText ==
  /\ self.cls = "Groq"
  /\ \E kwargs \in Kwargs, reply \in OpenAIReplies :
       Method("generate_text", [prompt |-> "Say hi", kwargs |-> kwargs], reply,
              Groq_generate_text(self, "Say hi", kwargs, reply))

GroqVerifyAccessKey ==
  /\ self.cls = "Groq"
  /\ \E reply \in OpenAIReplies :
       Method("verify_access_key", <<>>, reply, Groq_verify_access_key(self, reply))

GroqGetModels ==
  /\ self.cls = "Groq"
  /\ Method("get_models", <<>>, NoReply, [result |-> Groq_get_models(self), sent |-> <<>>])

GroqGetTokenLimit ==
  /\ self.cls = "Groq"
  /\ Method("get_token_limit", <<>>, NoReply, [result |-> Groq_get_token_limit(self), sent |-> <<>>])

\* The operations callers invoke on an adapter.
Operations ==
  { "chat_completion", "generate_text", "get_models", "get_token_limit",
    "verify_access_key", "stream_chat_completion" }

\* instance.op() for an operation the class does not have: the lookup raises.
MissingMethod ==
  \E op \in Operations :
    /\ ~HasMethod(self.cls, op)
    /\ call' = [op |-> op, cls |-> self.cls, args |-> <<>>, reply |-> NoReply,
                result |-> Raised(AttributeError(self.cls, op)), sent |-> <<>>]
    /\ UNCHANGED <<ANTHROPIC_AVAILABLE, self, constructed, users,
               environ, config_file, config_instance, tasks>>

\* stream_chat_completion(messages, **kwargs): the generator object, nothing has run.
StreamChatCompletion ==
  /\ self.cls \in { "Grok", "Groq" }
  /\ \E messages \in MessageLists, kwargs \in Kwargs :
       call' = [op |-> "stream_chat_completion", cls |-> self.cls,
                args |-> [messages |-> messages, kwargs |-> kwargs], pc |-> "created",
                consumed |-> 0, yielded |-> <<>>, result |-> Returned(None), sent |-> <<>>,
                received |-> <<>>]
  /\ self' = FieldsAfter(self, "stream_chat_completion")
  /\ UNCHANGED <<ANTHROPIC_AVAILABLE, constructed, users,
               environ, config_file, config_instance, tasks>>

Streaming(pc) ==
  /\ call.op = "stream_chat_completion"
  /\ "pc" \in DOMAIN call
  /\ call.pc = pc
  /\ self.cls = call.cls

\* The first next(): the request is sent with stream=True; the vendor opens the stream or raises.
StreamOpen ==
  /\ Streaming("created")
  /\ \E reply \in VendorRaises \cup { [kind |-> "ok"] } :
       call' = [call EXCEPT
                  !.sent = << OpenAIRequest(self, call.args.messages, StreamKwargs(call.args.kwargs)) >>,
                  !.pc = IF reply.kind = "raise" THEN "raised" ELSE "iterating",
                  !.result = IF reply.kind = "raise" THEN StreamExcept(self.cls, reply.exc) ELSE @]
  /\ self' = FieldsAfter(self, "stream_chat_completion")
  /\ UNCHANGED <<ANTHROPIC_AVAILABLE, constructed, users,
               environ, config_file, config_instance, tasks>>

\* for chunk in response: one vendor chunk is yielded, skipped, or fails the indexing.
StreamChunk ==
  /\ Streaming("iterating")
  /\ call.consumed < MaxChunks
  /\ \E chunk \in StreamChunks :
       call' = IF Len(chunk.choices) = 0
               THEN [call EXCEPT !.consumed = @ + 1, !.received = Append(@, chunk),
                                 !.pc = "raised",
                                 !.result = StreamExcept(self.cls, IndexError)]
               ELSE IF Truthy(chunk.choices[1].delta.content)
               THEN [call EXCEPT !.consumed = @ + 1, !.received = Append(@, chunk),
                                 !.yielded = Append(@, YieldedChunk(chunk))]
               ELSE [call EXCEPT !.consumed = @ + 1, !.received = Append(@, chunk)]
  /\ self' = FieldsAfter(self, "stream_chat_completion")
  /\ UNCHANGED <<ANTHROPIC_AVAILABLE, constructed, users,
               environ, config_file, config_instance, tasks>>

\* The vendor's stream breaks during the iteration.
StreamFault ==
  /\ Streaming("iterating")
  /\ \E e \in VendorExceptions :
       call' = [call EXCEPT !.pc = "raised", !.result = StreamExcept(self.cls, e)]
  /\ self' = FieldsAfter(self, "stream_chat_completion")
  /\ UNCHANGED <<ANTHROPIC_AVAILABLE, constructed, users,
               environ, config_file, config_instance, tasks>>

\* The vendor's stream ends: the generator returns.
StreamEnd ==
  /\ Streaming("iterating")
  /\ call' = [call EXCEPT !.pc = "done"]
  /\ self' = FieldsAfter(self, "stream_chat_completion")
  /\ UNCHANGED <<ANTHROPIC_AVAILABLE, constructed, users,
               environ, config_file, config_instance, tasks>>

\* The class methods of ModelSourceType touch no adapter.
GetModelSourceType ==
  /\ \E name \in SourceNames :
       call' = [op |-> "get_model_source_type", name |-> name,
                result |-> get_model_source_type(name)]
  /\ UNCHANGED <<ANTHROPIC_AVAILABLE, self, constructed, users,
               environ, config_file, config_instance, tasks>>

GetModelSourceFromModel ==
  /\ \E model_name \in ModelNames :
       call' = [op |-> "get_model_source_from_model", model_name |-> model_name,
                result |-> get_model_source_from_model(model_name)]
  /\ UNCHANGED <<ANTHROPIC_AVAILABLE, self, constructed, users,
               environ, config_file, config_instance, tasks>>

\* The methods of a constructed adapter.
Next ==
  \/ AnthropicChatCompletion
  \/ AnthropicVerifyAccessKey
  \/ AnthropicGetModels
  \/ GrokChatCompletion
  \/ GrokGenerateText
  \/ GrokVerifyAccessKey
  \/ GrokGetModels
  \/ GrokGetTokenLimit
  \/ GroqChatCompletion
  \/ GroqGenerateText
  \/ GroqVerifyAccessKey
  \/ GroqGetModels
  \/ GroqGetTokenLimit
  \/ StreamChatCompletion
  \/ StreamOpen
  \/ StreamChunk
  \/ StreamFault
  \/ StreamEnd
  \/ MissingMethod

Spec == Init /\ [][Next]_vars

\* The constructors, and the table lookups of the instances they return.
NextConstruct ==
  \/ AnthropicInit
  \/ GrokInit
  \/ GroqInit
  \/ AnthropicGetModels
  \/ GrokGetModels
  \/ GrokGetTokenLimit
  \/ GroqGetModels
  \/ GroqGetTokenLimit

SpecConstruct == InitConstruct /\ [][NextConstruct]_vars

\* str(member)
StrOfMember ==
  /\ \E i \in 1..Len(ModelSourceType) :
       call' = [op |-> "__str__", member |-> ModelSourceType[i].member,
                result |-> Returned(Str(ModelSourceType[i]))]
  /\ UNCHANGED <<ANTHROPIC_AVAILABLE, self, constructed, users,
               environ, config_file, config_instance, tasks>>

\* get_model_source_type(str(member)): the string just produced is looked up.
GetModelSourceTypeOfStr ==
  /\ call.op = "__str__"
  /\ call' = [op |-> "get_model_source_type", name |-> call.result.value,
              result |-> get_model_source_type(call.result.value),
              member |-> call.member]
  /\ UNCHANGED <<ANTHROPIC_AVAILABLE, self, constructed, users,
               environ, config_file, config_instance, tasks>>

\* The class methods of ModelSourceType.
NextSource ==
  \/ GetModelSourceType
  \/ GetModelSourceFromModel
  \/ StrOfMember
  \/ GetModelSourceTypeOfStr

SpecSource == InitConstruct /\ [][NextSource]_vars

----------------------------------------------------------------------------
(* Properties of the adapters' chat_completion.                            *)

IsChat(cls) == call.op = "chat_completion" /\ call.cls = cls

\* C1 as stated: whenever the vendor call inside chat_completion raises, every
\* adapter returns a dictionary with an "error" key and raises nothing.
C1_AsStated ==
  (call.op = "chat_completion" /\ call.reply.kind = "raise")
    => (call.result.kind = "return" /\ HasKey(call.result.value, "error"))

\* C1, amended: when the vendor call raises, Anthropic.chat_completion returns a
\* dictionary with an "error" key and raises nothing, while Grok and Groq raise a
\* new Exception "<Grok|Groq> API error: <message of the vendor's exception>".
C1_ErrorsTaggedOrWrapped ==
  (call.op = "chat_completion" /\ call.reply.kind = "raise")
    => IF call.cls = "Anthropic"
       THEN call.result.kind = "return" /\ HasKey(call.result.value, "error")
       ELSE /\ call.cls \in { "Grok", "Groq" }
            /\ call.result.kind = "raise"
            /\ call.result.exc.cls = "Exception"
            /\ call.result.exc.msg = call.cls \o " API error: " \o call.reply.exc.msg

C1_Witness ==
  /\ IsChat("Grok")
  /\ call.reply.kind = "raise"
  /\ call.result.kind = "raise"

\* The {choices, usage} dictionary the claim describes, for a vendor response.
CommonShape(reply, value) ==
  /\ DOMAIN value = { "choices", "usage" }
  /\ Len(value.choices) >= 1
  /\ value.choices[1].message.content = reply.choices[1].message.content
  /\ value.choices[1].message.role = reply.choices[1].message.role
  /\ value.choices[1].finish_reason = reply.choices[1].finish_reason
  /\ DOMAIN value.usage = { "prompt_tokens", "completion_tokens", "total_tokens" }

\* The vendor's response has a first choice (openai) or a first content block (anthropic).
HasFirstEntry(reply) ==
  IF HasKey(reply, "choices") THEN Len(reply.choices) >= 1 ELSE Len(reply.content) >= 1

\* C2 as stated: after a successful vendor call every adapter returns the
\* {choices, usage} dictionary copied from the vendor's first choice.
C2_AsStated ==
  (call.op = "chat_completion" /\ call.reply.kind = "ok" /\ HasFirstEntry(call.reply))
    => (/\ call.result.kind = "return"
        /\ DOMAIN call.result.value = { "choices", "usage" }
        /\ HasKey(call.reply, "choices") => CommonShape(call.reply, call.result.value))

\* C2, amended: after a successful vendor call whose response holds at least one
\* choice, Grok and Groq return {choices, usage}: one choice with content, role and
\* finish_reason of the vendor's first choice, and the vendor's three token counts,
\* each 0 when the vendor reports no usage.  After a successful vendor call whose
\* response holds at least one content block, Anthropic returns {response, content}:
\* the vendor's response and the text of its first block.
C2_ShapePerAdapter ==
  (call.op = "chat_completion" /\ call.reply.kind = "ok")
    => IF call.cls = "Anthropic"
       THEN Len(call.reply.content) >= 1
              => /\ call.result.kind = "return"
                 /\ DOMAIN call.result.value = { "response", "content" }
                 /\ call.result.value.response = call.reply
                 /\ call.result.value.content = call.reply.content[1].text
       ELSE Len(call.reply.choices) >= 1
              => /\ call.result.kind = "return"
                 /\ CommonShape(call.reply, call.result.value)
                 /\ Len(call.result.value.choices) = 1
                 /\ call.result.value.usage =
                      IF call.reply.usage = None
                      THEN [prompt_tokens |-> 0, completion_tokens |-> 0, total_tokens |-> 0]
                      ELSE [prompt_tokens |-> call.reply.usage[1].prompt_tokens,
                            completion_tokens |-> call.reply.usage[1].completion_tokens,
                            total_tokens |-> call.reply.usage[1].total_tokens]

C2_Witness ==
  /\ IsChat("Groq")
  /\ call.reply.kind = "ok"
  /\ Len(call.reply.choices) = 2
  /\ call.reply.usage = None
  /\ call.result.kind = "return"

\* C3: Anthropic.chat_completion tags a RateLimitError ERROR_RATE_LIMIT, an
\* AuthenticationError ERROR_AUTHENTICATION, any other APIError ERROR_API and any
\* other exception ERROR_ANTHROPIC, and a call that succeeds returns no "error" key.
C3_AnthropicErrorVocabulary ==
  IsChat("Anthropic")
    => /\ call.result.kind = "return"
       /\ IF call.reply.kind = "raise"
          THEN /\ DOMAIN call.result.value = { "error", "message" }
               /\ call.result.value.error =
                    (IF call.reply.exc.cls = "RateLimitError" THEN "ERROR_RATE_LIMIT"
                     ELSE IF call.reply.exc.cls = "AuthenticationError" THEN "ERROR_AUTHENTICATION"
                     ELSE IF "APIError" \in Mro(call.reply.exc.cls) THEN "ERROR_API"
                     ELSE "ERROR_ANTHROPIC")
          ELSE IF Len(call.reply.content) = 0
          THEN HasKey(call.result.value, "error") /\ call.result.value.error = "ERROR_ANTHROPIC"
          ELSE ~HasKey(call.result.value, "error")

C3_Witness ==
  /\ IsChat("Anthropic")
  /\ call.reply.kind = "raise"
  /\ call.reply.exc.cls = "RateLimitError"
  /\ call.result.value.error = "ERROR_RATE_LIMIT"

\* What each method computes from the fields the constructor set, the call's
\* arguments and the vendor's reply to that call.
ResultOf(inst, c) ==
  CASE c.op = "chat_completion" /\ c.cls = "Anthropic" ->
         Anthropic_chat_completion(inst, c.args.messages, c.args.max_tokens, c.reply).result
    [] c.op = "chat_completion" /\ c.cls = "Grok" ->
         Grok_chat_completion(inst, c.args.messages, c.args.kwargs, c.reply).result
    [] c.op = "chat_completion" /\ c.cls = "Groq" ->
         Groq_chat_completion(inst, c.args.messages, c.args.kwargs, c.reply).result
    [] c.op = "generate_text" /\ c.cls = "Grok" ->
         Grok_generate_text(inst, c.args.prompt, c.args.kwargs, c.reply).result
    [] c.op = "generate_text" /\ c.cls = "Groq" ->
         Groq_generate_text(inst, c.args.prompt, c.args.kwargs, c.reply).result
    [] c.op = "verify_access_key" /\ c.cls = "Anthropic" -> Anthropic_verify_access_key(inst, c.reply).result
    [] c.op = "verify_access_key" /\ c.cls = "Grok" -> Grok_verify_access_key(inst, c.reply).result
    [] c.op = "verify_access_key" /\ c.cls = "Groq" -> Groq_verify_access_key(inst, c.reply).result
    [] c.op = "get_models" /\ c.cls = "Anthropic" -> Anthropic_get_models(inst)
    [] c.op = "get_models" /\ c.cls = "Grok" -> Grok_get_models(inst)
    [] c.op = "get_models" /\ c.cls = "Groq" -> Groq_get_models(inst)
    [] c.op = "get_token_limit" /\ c.cls = "Grok" -> Grok_get_token_limit(inst)
    [] c.op = "get_token_limit" /\ c.cls = "Groq" -> Groq_get_token_limit(inst)
    [] ~HasMethod(c.cls, c.op) -> Raised(AttributeError(c.cls, c.op))

C5_OneRequestPerCall ==
  call.op \in { "chat_completion", "verify_access_key" } => Len(call.sent) = 1

C5_Witness ==
  /\ call.op = "verify_access_key"
  /\ call.cls = "Grok"
  /\ call.reply.kind = "raise"
  /\ call.result = Returned(FALSE)
  /\ Len(call.sent) = 1

----------------------------------------------------------------------------
(* Properties of ModelSourceType.                                          *)

IsResolve == call.op = "get_model_source_from_model"

HasMember(member, value) ==
  \E i \in 1..Len(ModelSourceType) :
    ModelSourceType[i].member = member /\ ModelSourceType[i].value = value

\* C7 as stated (and as test_new_providers.py asserts): the enum has the members
\* Grok and Groq, a Grok model name resolves to Grok and a Groq model name to Groq,
\* and the OpenAI, Anthropic, Google and Replicate names the tests use still resolve
\* to their own source.
C7_GrokAndGroqResolve ==
  /\ (IsResolve /\ call.model_name \in { "grok-beta", "grok-1" })
       => (HasMember("Grok", <<"G", "r", "o", "k">>) /\ call.result = Returned("Grok"))
  /\ (IsResolve /\ call.model_name \in { "llama-3.1-70b-versatile", "llama-3.1-8b-instant",
                                         "mixtral-8x7b-32768" })
       => (HasMember("Groq", <<"G", "r", "o", "q">>) /\ call.result = Returned("Groq"))
  /\ (IsResolve /\ call.model_name \in { "gpt-4o", "o1-preview" }) => call.result = Returned("OpenAI")
  /\ (IsResolve /\ call.model_name = "claude-3-5-sonnet-20241022") => call.result = Returned("Anthropic")
  /\ (IsResolve /\ call.model_name = "gemini-1.5-pro") => call.result = Returned("GooglePalm")
  /\ (IsResolve /\ call.model_name = "meta/llama-2-70b-chat") => call.result = Returned("Replicate")

\* C8: get_model_source_type returns the member whose upper-cased name equals the
\* upper-cased argument without its spaces, and raises ValueError
\* "<normalised name> is not a valid vector store name." when there is none.
C8_SourceTypeByName ==
  call.op = "get_model_source_type"
    => LET n == ReplaceSpaces(Upper(call.name))
           hits == { i \in 1..Len(ModelSourceType) : Upper(ModelSourceType[i].name) = n }
       IN IF hits # {}
          THEN /\ Cardinality(hits) = 1
               /\ \A i \in hits : call.result = Returned(ModelSourceType[i].member)
          ELSE /\ call.result.kind = "raise"
               /\ call.result.exc.cls = "ValueError"
               /\ call.result.exc.msg = n \o <<" is not a valid vector store name.">>

C8_Witness ==
  /\ call.op = "get_model_source_type"
  /\ call.name = <<" ", "L", "o", "c", "a", "l", " ", "L", "L", "M", " ">>
  /\ call.result = Returned("LocalLLM")

----------------------------------------------------------------------------
(* Properties of the constructors and the token limit tables.              *)

KeyRequired(cls) ==
  IF cls = "Grok"
  THEN "xAI API key is required. Set XAI_API_KEY environment variable or pass api_key parameter."
  ELSE "Groq API key is required. Set GROQ_API_KEY environment variable or pass api_key parameter."

\* C9: Grok and Groq take a non-empty api_key argument as the key, otherwise a
\* non-empty XAI_API_KEY / GROQ_API_KEY; with neither the constructor raises
\* ValueError "... API key is required ..." and has created no vendor client, and no
\* instance has an empty api_key.
C9_ApiKeyRequired ==
  /\ self.cls \in { "Grok", "Groq" } => (self.api_key # "" /\ self.client.api_key = self.api_key)
  /\ (call.op = "__init__" /\ call.cls \in { "Grok", "Groq" })
       => IF call.args.api_key \notin { None, Some("") }
          THEN /\ call.result.kind = "return"
               /\ call.result.value.api_key = call.args.api_key[1]
               /\ Len(call.clients) = 1
          ELSE IF call.args.getenv \notin { None, Some("") }
          THEN /\ call.result.kind = "return"
               /\ call.result.value.api_key = call.args.getenv[1]
               /\ Len(call.clients) = 1
          ELSE /\ call.result = Raised(Exc("ValueError", KeyRequired(call.cls)))
               /\ call.clients = <<>>

C9_Witness ==
  /\ call.op = "__init__"
  /\ call.cls = "Groq"
  /\ call.args.api_key = Some("")
  /\ call.args.getenv = None
  /\ call.result.kind = "raise"
  /\ self.cls = "Grok"

\* C10: Groq.get_token_limit returns 131072 for llama-3.1-70b-versatile and
\* llama-3.1-8b-instant, 32768 for mixtral-8x7b-32768 and 8192 for every other
\* model, listed or not; Grok.get_token_limit returns 131072 for every model; and
\* every name of get_models() of Grok and Groq is a key of the adapter's table.
C10_TokenLimits ==
  /\ (call.op = "get_token_limit" /\ call.cls = "Groq")
       => call.result =
            Returned(IF self.model \in { "llama-3.1-70b-versatile", "llama-3.1-8b-instant" } THEN 131072
                     ELSE IF self.model = "mixtral-8x7b-32768" THEN 32768
                     ELSE 8192)
  /\ (call.op = "get_token_limit" /\ call.cls = "Grok") => call.result = Returned(131072)
  /\ (call.op = "get_models" /\ call.cls = "Groq")
       => \A i \in 1..Len(call.result.value) : HasKey(groq_token_limits, call.result.value[i])
  /\ (call.op = "get_models" /\ call.cls = "Grok")
       => \A i \in 1..Len(call.result.value) : HasKey(grok_token_limits, call.result.value[i])

C10_Witness ==
  /\ call.op = "get_token_limit"
  /\ call.cls = "Groq"
  /\ self.model = "mixtral-8x7b-32768"
  /\ call.result = Returned(32768)

----------------------------------------------------------------------------
(* The interface of the adapters.                                          *)

FourOperations == { "chat_completion", "get_models", "get_token_limit", "verify_access_key" }

IsAdapterCall(op) ==
  /\ call.op = op
  /\ call.cls \in { "Anthropic", "Grok", "Groq" }

Exposed == ~(call.result.kind = "raise" /\ call.result.exc.cls = "AttributeError")

\* The result types of the three typed operations, for a call that found its method.
TypedResult ==
  /\ IsAdapterCall("get_models")
       => /\ call.result.kind = "return"
          /\ call.result.value \in Seq(STRING)
  /\ IsAdapterCall("get_token_limit")
       => /\ call.result.kind = "return"
          /\ call.result.value \in Int
  /\ IsAdapterCall("verify_access_key")
       => /\ call.result.kind = "return"
          /\ call.result.value \in BOOLEAN

ProbeSucceeds ==
  /\ call.reply.kind = "ok"
  /\ call.cls \in { "Grok", "Groq" } => Len(call.reply.choices) > 0

\* C12: verify_access_key of every adapter returns True exactly when its probe
\* completion succeeds, False for every exception raised by the probe, and it
\* never raises.
C12_VerifyAccessKey ==
  IsAdapterCall("verify_access_key")
    => /\ call.result.kind = "return"
       /\ call.result.value \in BOOLEAN
       /\ call.result.value = TRUE <=> ProbeSucceeds
       /\ call.reply.kind = "raise" => call.result.value = FALSE

C12_Witness ==
  /\ IsAdapterCall("verify_access_key")
  /\ call.cls = "Anthropic"
  /\ call.reply.kind = "raise"
  /\ call.reply.exc.cls = "TimeoutError"
  /\ call.result = Returned(FALSE)

----------------------------------------------------------------------------
(* superagi/types/api_models.py: the model registry.                       *)

\* The values of the str-enum ProviderType, in declaration order.
ProviderType ==
  << "openai", "anthropic", "google", "grok", "groq", "deepseek", "mistral",
     "replicate", "huggingface", "local_llm" >>

\* A registry entry: the fields of ModelSpec the registry functions read.
RegistryModel(name, provider, context_length, release_date) ==
  [name |-> name, provider |-> provider, context_length |-> context_length,
   release_date |-> Some(release_date)]

OPENAI_MODELS ==
  << RegistryModel("gpt-4o-2025-01-15", "openai", 200000, "2025-01-15"),
     RegistryModel("o3-mini", "openai", 200000, "2025-01-20"),
     RegistryModel("o3", "openai", 300000, "2025-01-20") >>

ANTHROPIC_MODELS ==
  << RegistryModel("claude-3-5-sonnet-20250120", "anthropic", 500000, "2025-01-20"),
     RegistryModel("claude-3-5-haiku-20250115", "anthropic", 400000, "2025-01-15"),
     RegistryModel("claude-4-opus", "anthropic", 1000000, "2025-01-10") >>

GOOGLE_MODELS ==
  << RegistryModel("gemini-2.0-flash", "google", 2000000, "2025-01-05"),
     RegistryModel("gemini-2.0-pro", "google", 5000000, "2025-01-15") >>

GROK_MODELS ==
  << RegistryModel("grok-2", "grok", 200000, "2025-01-08") >>

GROQ_MODELS ==
  << RegistryModel("llama-3.3-70b-versatile", "groq", 300000, "2025-01-12"),
     RegistryModel("llama-3.3-8b-instant", "groq", 300000, "2025-01-12") >>

DEEPSEEK_MODELS ==
  << RegistryModel("deepseek-v3", "deepseek", 200000, "2025-01-05") >>

MISTRAL_MODELS ==
  << RegistryModel("mistral-large-2-2025", "mistral", 300000, "2025-01-18") >>

ALL_MODELS ==
  OPENAI_MODELS \o ANTHROPIC_MODELS \o GOOGLE_MODELS \o GROK_MODELS \o GROQ_MODELS
    \o DEEPSEEK_MODELS \o MISTRAL_MODELS

\* [model for model in models if condition]: conditions[i] is the condition's
\* value for models[i].
RECURSIVE Comprehension(_, _)
Comprehension(models, conditions) ==
  IF models = <<>> THEN <<>>
  ELSE (IF Head(conditions) THEN << Head(models) >> ELSE <<>>)
         \o Comprehension(Tail(models), Tail(conditions))

\* A variant of the provider filter that lists the newest registry entries first.
get_models_by_provider_Reversed(provider) ==
  LET matching == Comprehension(ALL_MODELS, [i \in 1..Len(ALL_MODELS) |->
                                               ALL_MODELS[i].provider = provider])
  IN [i \in 1..Len(matching) |-> matching[Len(matching) + 1 - i]]

get_models_by_provider(provider) ==
  Comprehension(ALL_MODELS, [i \in 1..Len(ALL_MODELS) |-> ALL_MODELS[i].provider = provider])

\* next((model for model in models if model.name == name), None)
RECURSIVE NextOrNone(_, _)
NextOrNone(models, name) ==
  IF models = <<>> THEN None
  ELSE IF Head(models).name = name THEN Some(Head(models))
  ELSE NextOrNone(Tail(models), name)

get_model_by_name(name) == NextOrNone(ALL_MODELS, name)

\* str.startswith
StartsWith(s, prefix) ==
  /\ Len(s) >= Len(prefix)
  /\ SubSeq(s, 1, Len(prefix)) = prefix

\* The code points of the characters of a date string.
Ord(c) ==
  CASE c = "-" -> 45 [] c = "0" -> 48 [] c = "1" -> 49 [] c = "2" -> 50 [] c = "3" -> 51
    [] c = "4" -> 52 [] c = "5" -> 53 [] c = "6" -> 54 [] c = "7" -> 55 [] c = "8" -> 56
    [] c = "9" -> 57

\* a >= b on Python strings: by code point, a proper prefix being the smaller.
RECURSIVE StrGe(_, _)
StrGe(a, b) ==
  IF Len(b) = 0 THEN TRUE
  ELSE IF Len(a) = 0 THEN FALSE
  ELSE IF Ord(SubSeq(a, 1, 1)) # Ord(SubSeq(b, 1, 1))
       THEN Ord(SubSeq(a, 1, 1)) > Ord(SubSeq(b, 1, 1))
  ELSE StrGe(SubSeq(a, 2, Len(a)), SubSeq(b, 2, Len(b)))

get_latest_models ==
  Comprehension(ALL_MODELS,
                [i \in 1..Len(ALL_MODELS) |->
                   /\ Truthy(ALL_MODELS[i].release_date)
                   /\ StartsWith(ALL_MODELS[i].release_date[1], "2025")])

\* A variant of get_2025_models that compares against the date of the newest
\* OpenAI release instead of the first day of 2025.
get_2025_models_SinceLatestRelease ==
  Comprehension(ALL_MODELS,
                [i \in 1..Len(ALL_MODELS) |->
                   /\ Truthy(ALL_MODELS[i].release_date)
                   /\ StrGe(ALL_MODELS[i].release_date[1], "2025-01-20")])

get_2025_models ==
  Comprehension(ALL_MODELS,
                [i \in 1..Len(ALL_MODELS) |->
                   /\ Truthy(ALL_MODELS[i].release_date)
                   /\ StrGe(ALL_MODELS[i].release_date[1], "2025-01-01")])

\* pydantic's error for a constructor whose arguments fail validation.
ValidationError(model) == Exc("ValidationError", "validation error for " \o model)

IsProviderType(value) == \E i \in 1..Len(ProviderType) : ProviderType[i] = value

\* ModelSpec(**kwargs): name, provider, capabilities, context_length and
\* description are required (Field(...)), provider must be a value of
\* ProviderType, and no field carries a length or range constraint.  An argument
\* that is not passed is None in kwargs.
ModelSpec(kwargs) ==
  IF \/ kwargs.name = None
     \/ kwargs.provider = None
     \/ kwargs.capabilities = None
     \/ kwargs.context_length = None
     \/ kwargs.description = None
     \/ ~IsProviderType(kwargs.provider[1])
  THEN Raised(ValidationError("ModelSpec"))
  ELSE Returned([name |-> kwargs.name[1], provider |-> kwargs.provider[1],
                 context_length |-> kwargs.context_length[1],
                 release_date |-> kwargs.release_date,
                 capabilities |-> kwargs.capabilities[1],
                 description |-> kwargs.description[1],
                 supports_streaming |-> TRUE, supports_functions |-> FALSE,
                 supports_vision |-> FALSE])

\* The default of AIModelConfig.temperature, 0.7; temperatures are in tenths.
DefaultTemperature == 7

\* AIModelConfig(**kwargs): model and provider are required, temperature
\* defaults to 0.7, and no field carries a length or range constraint.
AIModelConfig(kwargs) ==
  IF \/ kwargs.model = None
     \/ kwargs.provider = None
     \/ ~IsProviderType(kwargs.provider[1])
  THEN Raised(ValidationError("AIModelConfig"))
  ELSE Returned([max_tokens |-> kwargs.max_tokens, model |-> kwargs.model[1],
                 temperature |-> IF kwargs.temperature = None THEN DefaultTemperature
                                 ELSE kwargs.temperature[1],
                 provider |-> kwargs.provider[1]])

\* The names looked up: every registered name and the names of the unit tests.
LookupNames ==
  { ALL_MODELS[i].name : i \in 1..Len(ALL_MODELS) }
    \cup { "gpt-4o", "claude-3-5-sonnet-20241022", "llama-3.1-70b-versatile",
           "non-existent-model" }

\* The keyword arguments of the constructors in the unit tests; an argument that
\* is not passed is None.
ModelSpecKwargs(name, provider, capabilities, context_length, release_date, description) ==
  [name |-> name, provider |-> provider, context_length |-> context_length,
   release_date |-> release_date, capabilities |-> capabilities,
   description |-> description]

AIModelConfigKwargs(model, provider, temperature, max_tokens) ==
  [max_tokens |-> max_tokens, model |-> model, temperature |-> temperature,
   provider |-> provider]

\* Temperatures 0.0, 0.7, 2.0, 2.1 and 3.0, in tenths.
Temperatures == { None, Some(0), Some(7), Some(20), Some(21), Some(30) }

\* A call of a registry function or of a constructor: its record.
RegistryCall(op, args, result) ==
  /\ call' = [result |-> result, op |-> op, args |-> args]
  /\ UNCHANGED <<ANTHROPIC_AVAILABLE, self, constructed, users,
               environ, config_file, config_instance, tasks>>

GetModelsByProvider ==
  \E i \in 1..Len(ProviderType) :
    RegistryCall("get_models_by_provider", [provider |-> ProviderType[i]],
                 Returned(get_models_by_provider(ProviderType[i])))

GetModelByName ==
  \E name \in LookupNames :
    RegistryCall("get_model_by_name", [name |-> name], Returned(get_model_by_name(name)))

GetLatestModels ==
  RegistryCall("get_latest_models", <<>>, Returned(get_latest_models))

Get2025Models ==
  RegistryCall("get_2025_models", <<>>, Returned(get_2025_models))

NewModelSpec ==
  \E name \in { None, Some(""), Some("gpt-4o") },
     provider \in { None, Some("openai"), Some("groq"), Some("acme") },
     capabilities \in { None, Some(<<>>), Some(<< "text_generation" >>) },
     context_length \in { None, Some(128000) },
     release_date \in { None, Some("2024-05-13") },
     description \in { None, Some("Test model") } :
    LET kwargs == ModelSpecKwargs(name, provider, capabilities, context_length,
                                  release_date, description)
    IN RegistryCall("ModelSpec", kwargs, ModelSpec(kwargs))

NewAIModelConfig ==
  \E model \in { None, Some(""), Some("gpt-4o") },
     provider \in { None, Some("openai"), Some("acme") },
     temperature \in Temperatures,
     max_tokens \in { None, Some(2048) } :
    LET kwargs == AIModelConfigKwargs(model, provider, temperature, max_tokens)
    IN RegistryCall("AIModelConfig", kwargs, AIModelConfig(kwargs))

\* The registry functions and the constructors of the pydantic models.
NextRegistry ==
  \/ GetModelsByProvider
  \/ GetModelByName
  \/ GetLatestModels
  \/ Get2025Models
  \/ NewModelSpec
  \/ NewAIModelConfig

SpecRegistry == InitConstruct /\ [][NextRegistry]_vars

----------------------------------------------------------------------------
(* Properties of the model registry.                                       *)

\* The indices of the registry entries of a provider.
IndicesOf(provider) == { i \in 1..Len(ALL_MODELS) : ALL_MODELS[i].provider = provider }

\* C13: get_models_by_provider(p) returns exactly the models of ALL_MODELS whose
\* provider equals p, in registry order, for every ProviderType p, and the result
\* is non-empty for OPENAI, ANTHROPIC and GROQ.
C13_ModelsByProvider ==
  call.op = "get_models_by_provider"
    => LET result == call.result.value
           indices == IndicesOf(call.args.provider)
       IN /\ call.result.kind = "return"
          /\ Len(result) = Cardinality(indices)
          /\ \A k \in 1..Len(result) :
               \E i \in indices :
                 /\ result[k] = ALL_MODELS[i]
                 /\ Cardinality({ j \in indices : j < i }) = k - 1
          /\ call.args.provider \in { "openai", "anthropic", "groq" } => Len(result) > 0

C13_Witness ==
  /\ call.op = "get_models_by_provider"
  /\ call.args.provider = "groq"
  /\ Len(call.result.value) = 2
  /\ call.result.value[1].name = "llama-3.3-70b-versatile"
  /\ call.result.value[2].name = "llama-3.3-8b-instant"

Registered(model) == \E i \in 1..Len(ALL_MODELS) : ALL_MODELS[i] = model

\* The names the unit test of get_model_by_name resolves, with their providers.
ResolvedByTest ==
  ("gpt-4o" :> "openai") @@ ("claude-3-5-sonnet-20241022" :> "anthropic")
    @@ ("llama-3.1-70b-versatile" :> "groq")

\* C14: get_model_by_name(n) returns a registered model whose name equals n, and
\* None when no registered model has that name; the registry resolves "gpt-4o" to
\* an OpenAI model, "claude-3-5-sonnet-20241022" to an Anthropic model and
\* "llama-3.1-70b-versatile" to a Groq model.
C14_ModelByName ==
  call.op = "get_model_by_name"
    => LET found == call.result.value
       IN /\ found # None => (Registered(found[1]) /\ found[1].name = call.args.name)
          /\ found = None <=> ~(\E i \in 1..Len(ALL_MODELS) : ALL_MODELS[i].name = call.args.name)
          /\ call.args.name \in DOMAIN ResolvedByTest
               => /\ found # None
                  /\ found[1].provider = ResolvedByTest[call.args.name]

\* C15: get_latest_models() returns a non-empty list, and every model in it has
\* a release_date that is set and begins with "2024".
C15_LatestModels2024 ==
  call.op = "get_latest_models"
    => LET latest == call.result.value
       IN /\ Len(latest) > 0
          /\ \A i \in 1..Len(latest) :
               /\ latest[i].release_date # None
               /\ StartsWith(latest[i].release_date[1], "2024")

\* The calendar value of a YYYY-MM-DD date: year * 10000 + month * 100 + day.
Digit(s, i) == Ord(SubSeq(s, i, i)) - 48

DateNumber(s) ==
  (Digit(s, 1) * 1000 + Digit(s, 2) * 100 + Digit(s, 3) * 10 + Digit(s, 4)) * 10000
    + (Digit(s, 6) * 10 + Digit(s, 7)) * 100
    + Digit(s, 9) * 10 + Digit(s, 10)

MaxTemperature == 20

\* C17: constructing ModelSpec with an empty name, AIModelConfig with an empty
\* model identifier, or AIModelConfig with a temperature above 2.0 raises
\* ValidationError, and no object is produced.
C17_ValidationRejects ==
  /\ (call.op = "ModelSpec" /\ call.args.name = Some(""))
       => call.result = Raised(ValidationError("ModelSpec"))
  /\ (call.op = "AIModelConfig" /\ call.args.model = Some(""))
       => call.result = Raised(ValidationError("AIModelConfig"))
  /\ (call.op = "AIModelConfig" /\ call.args.temperature # None
        /\ call.args.temperature[1] > MaxTemperature)
       => call.result = Raised(ValidationError("AIModelConfig"))

----------------------------------------------------------------------------
(* main.py: the authentication endpoints and the exception handlers.       *)
(* The endpoints are those of the application create_app() builds; the     *)
(* database session and AuthJWT() are available to every request.          *)

\* A row of the users table: User(name=..., email=...).
User(name, email) == [name |-> name, email |-> email]

\* db.session.query(User).filter(User.email == email).first()
QueryFirst(table, email) ==
  LET found == { i \in 1..Len(table) : table[i].email = email }
  IN IF found = {} THEN None
     ELSE Some(table[CHOOSE i \in found : \A j \in found : i <= j])

\* db.session.add(user); db.session.commit()
AddAndCommit(table, user) == Append(table, user)

\* authorize.create_access_token(subject=email): a signed token for the subject.
create_access_token(email) == "jwt." \o email

HTTPException(status_code, detail) ==
  [cls |-> "HTTPException", status_code |-> status_code, detail |-> detail]

\* The exceptions of fastapi_jwt_auth carry a status code and a message.
AuthJWTError(cls, status_code, message) ==
  [cls |-> cls, message |-> message, status_code |-> status_code]

KeyError(key) == Exc("KeyError", key)

\* The classes of an exception, most derived first.
ExceptionMro(cls) ==
  CASE cls = "HTTPException" -> << "HTTPException", "Exception" >>
    [] cls = "MissingTokenError" -> << "MissingTokenError", "AuthJWTException", "Exception" >>
    [] cls = "JWTDecodeError" -> << "JWTDecodeError", "AuthJWTException", "Exception" >>
    [] cls = "KeyError" -> << "KeyError", "LookupError", "Exception" >>
    [] cls = "ConnectionError" -> << "ConnectionError", "RequestException", "OSError", "Exception" >>
    [] OTHER -> << cls, "Exception" >>

JSONResponse(status_code, content) ==
  [content |-> content, status_code |-> status_code]

\* RedirectResponse(url=...): a 307 with the target and its query parameters.
RedirectResponse(url, access_token, first_time_login) ==
  [status_code |-> 307, url |-> url, access_token |-> access_token,
   first_time_login |-> first_time_login]

\* datetime.utcnow().isoformat(): the time of the response.
Timestamp == "utcnow"

authjwt_exception_handler(exc) ==
  JSONResponse(exc.status_code, [detail |-> exc.message])

http_exception_handler(exc) ==
  JSONResponse(exc.status_code,
               [status_code |-> exc.status_code, detail |-> exc.detail,
                timestamp |-> Timestamp])

general_exception_handler(exc) ==
  JSONResponse(500, [status_code |-> 500, detail |-> "Internal server error",
                     timestamp |-> Timestamp])

\* A variant of the registration without the handler for AuthJWTException.
exception_handlers_NoAuthJWT == { "HTTPException", "Exception" }

\* The exception classes register_event_handlers registers a handler for.
exception_handlers == { "AuthJWTException", "HTTPException", "Exception" }

\* The handler of the first class of the exception's MRO that has one.
RECURSIVE LookupHandler(_)
LookupHandler(mro) ==
  IF mro = <<>> THEN "none"
  ELSE IF Head(mro) \in exception_handlers THEN Head(mro)
  ELSE LookupHandler(Tail(mro))

\* What the client receives for what the endpoint returned or raised.
Respond(outcome) ==
  IF outcome.kind = "return"
  THEN IF "url" \in DOMAIN outcome.value THEN outcome.value
       ELSE JSONResponse(200, outcome.value)
  ELSE LET handler == LookupHandler(ExceptionMro(outcome.exc.cls))
       IN CASE handler = "AuthJWTException" -> authjwt_exception_handler(outcome.exc)
            [] handler = "HTTPException" -> http_exception_handler(outcome.exc)
            [] handler = "Exception" -> general_exception_handler(outcome.exc)
            [] OTHER -> [untranslated |-> outcome.exc]

\* A variant of login that checks the email and not the password.
login_EmailOnly(table, request) ==
  IF request.email = "admin@superagi.com"
  THEN LET user == QueryFirst(table, request.email)
       IN [users |-> IF user = None
                     THEN AddAndCommit(table, User(Some("SuperAGI Admin"), request.email))
                     ELSE table,
           outcome |-> Returned([access_token |-> create_access_token(request.email)])]
  ELSE [users |-> table, outcome |-> Raised(HTTPException(401, "Invalid credentials"))]

\* A variant of login that adds the admin row without looking for it first.
login_AlwaysAdds(table, request) ==
  IF request.email = "admin@superagi.com" /\ request.password = "password"
  THEN [users |-> AddAndCommit(table, User(Some("SuperAGI Admin"), request.email)),
        outcome |-> Returned([access_token |-> create_access_token(request.email)])]
  ELSE [users |-> table, outcome |-> Raised(HTTPException(401, "Invalid credentials"))]

\* POST /login: what the endpoint returns or raises, and the users table it leaves.
login(table, request) ==
  IF request.email = "admin@superagi.com" /\ request.password = "password"
  THEN LET user == QueryFirst(table, request.email)
       IN [users |-> IF user = None
                     THEN AddAndCommit(table, User(Some("SuperAGI Admin"), request.email))
                     ELSE table,
           outcome |-> Returned([access_token |-> create_access_token(request.email)])]
  ELSE [users |-> table, outcome |-> Raised(HTTPException(401, "Invalid credentials"))]

\* get_config("FRONTEND_URL", "http://localhost:3000") without a configured value.
frontend_url == "http://localhost:3000"

\* A variant of the callback's second half that reports every login as the first.
github_user_AlwaysFirstTime(table, user_data) ==
  IF ~Truthy(DictGet(user_data, "email", None)) /\ ~HasKey(user_data, "login")
  THEN [users |-> table, outcome |-> Raised(KeyError("login"))]
  ELSE LET user_email == IF Truthy(DictGet(user_data, "email", None))
                         THEN user_data.email[1]
                         ELSE user_data.login[1] \o "@github.com"
           db_user == QueryFirst(table, user_email)
       IN IF db_user # None
          THEN [users |-> table,
                outcome |-> Returned(RedirectResponse(frontend_url,
                                                      Some(create_access_token(user_email)),
                                                      Some("true")))]
          ELSE IF ~HasKey(user_data, "login")
          THEN [users |-> table, outcome |-> Raised(KeyError("login"))]
          ELSE [users |-> AddAndCommit(table,
                                       User(DictGet(user_data, "name", user_data.login),
                                            user_email)),
                outcome |-> Returned(RedirectResponse(frontend_url,
                                                      Some(create_access_token(user_email)),
                                                      Some("true")))]

\* The part of github_oauth after the user request answered ok: user_data is the
\* JSON object of the GitHub user, a null value being None.
github_user(table, user_data) ==
  IF ~Truthy(DictGet(user_data, "email", None)) /\ ~HasKey(user_data, "login")
  THEN [users |-> table, outcome |-> Raised(KeyError("login"))]
  ELSE LET user_email == IF Truthy(DictGet(user_data, "email", None))
                         THEN user_data.email[1]
                         ELSE user_data.login[1] \o "@github.com"
           db_user == QueryFirst(table, user_email)
       IN IF db_user # None
          THEN [users |-> table,
                outcome |-> Returned(RedirectResponse(frontend_url,
                                                      Some(create_access_token(user_email)),
                                                      Some("false")))]
          ELSE IF ~HasKey(user_data, "login")
          THEN [users |-> table, outcome |-> Raised(KeyError("login"))]
          ELSE [users |-> AddAndCommit(table,
                                       User(DictGet(user_data, "name", user_data.login),
                                            user_email)),
                outcome |-> Returned(RedirectResponse(frontend_url,
                                                      Some(create_access_token(user_email)),
                                                      Some("true")))]

\* A variant of github_oauth without the test of the code.
github_oauth_NoCodeCheck(table, code, token_response, response) ==
  IF token_response.kind = "raise"
  THEN [users |-> table, outcome |-> Raised(token_response.exc)]
  ELSE IF ~token_response.ok
  THEN [users |-> table,
        outcome |-> Returned(RedirectResponse("https://superagi.com/", None, None))]
  ELSE IF response.kind = "raise"
  THEN [users |-> table, outcome |-> Raised(response.exc)]
  ELSE IF ~response.ok
  THEN [users |-> table,
        outcome |-> Returned(RedirectResponse("https://superagi.com/", None, None))]
  ELSE github_user(table, response.json)

\* GET /github-oauth: code is the query parameter, token_response the answer of
\* the token exchange and response the answer of the user request.
github_oauth(table, code, token_response, response) ==
  IF code = ""
  THEN [users |-> table,
        outcome |-> Returned(RedirectResponse("https://superagi.com/", None, None))]
  ELSE IF token_response.kind = "raise"
  THEN [users |-> table, outcome |-> Raised(token_response.exc)]
  ELSE IF ~token_response.ok
  THEN [users |-> table,
        outcome |-> Returned(RedirectResponse("https://superagi.com/", None, None))]
  ELSE IF response.kind = "raise"
  THEN [users |-> table, outcome |-> Raised(response.exc)]
  ELSE IF ~response.ok
  THEN [users |-> table,
        outcome |-> Returned(RedirectResponse("https://superagi.com/", None, None))]
  ELSE github_user(table, response.json)

\* authorize.jwt_required() on the Authorization header of the request.
jwt_required(token) ==
  IF token = None
  THEN Raised(AuthJWTError("MissingTokenError", 401, "Missing Authorization Header"))
  ELSE IF ~StartsWith(token[1], "jwt.")
  THEN Raised(AuthJWTError("JWTDecodeError", 422, "Not enough segments"))
  ELSE Returned(SubSeq(token[1], 5, Len(token[1])))

\* GET /user
get_current_user(token) ==
  LET subject == jwt_required(token)
  IN IF subject.kind = "raise" THEN subject
     ELSE Returned([user |-> subject.value])

\* A variant of validate_access_token without its try and except.
validate_access_token_NoExcept(table, token) ==
  LET subject == jwt_required(token)
  IN IF subject.kind = "raise" THEN subject
     ELSE Returned([current_user |-> QueryFirst(table, subject.value)])

\* GET /validate-access-token: the body of the answer is the row of the token's
\* subject, null when there is none; whatever the try block raises becomes 401.
validate_access_token(table, token) ==
  LET subject == jwt_required(token)
  IN IF subject.kind = "raise" THEN Raised(HTTPException(401, "Invalid token"))
     ELSE Returned([current_user |-> QueryFirst(table, subject.value)])

\* GET /hello/{name}
say_hello(name, token) ==
  LET subject == jwt_required(token)
  IN IF subject.kind = "raise" THEN subject
     ELSE Returned([message |-> "Hello " \o name])

\* The credentials a client posts to /login.
LoginEmails == { "admin@superagi.com", "Admin@superagi.com", "dev@example.com", "" }

Passwords == { "password", "Password", "" }

\* What requests.post and requests.get can do: raise, or answer with a status.
ConnectionError == Exc("ConnectionError", "Max retries exceeded")

Answered(ok, json) == [kind |-> "return", ok |-> ok, json |-> json]

\* The JSON objects of GitHub users: with a public email or a null one, with and
\* without the keys name and login.
GithubUsers ==
  { [name |-> Some("The Octocat"), email |-> None, login |-> Some("octocat")],
    [email |-> Some(""), login |-> Some("octocat")],
    [name |-> None, email |-> Some("admin@superagi.com"), login |-> Some("admin")],
    [email |-> Some("dev@example.com"), login |-> Some("dev")],
    [email |-> Some("dev@example.com")],
    [name |-> Some("Nobody")] }

TokenResponses ==
  { Raised(ConnectionError), Answered(FALSE, [error |-> "bad_verification_code"]),
    Answered(TRUE, [access_token |-> "gho_token"]) }

UserResponses ==
  { Raised(ConnectionError), Answered(FALSE, [message |-> "Bad credentials"]) }
    \cup { Answered(TRUE, user_data) : user_data \in GithubUsers }

Tokens ==
  { None, Some("garbage"), Some(create_access_token("admin@superagi.com")),
    Some(create_access_token("octocat@github.com")) }

\* One request served from start to end: the call keeps the request, the table
\* it found, what the endpoint returned or raised and the response sent.
Serve(op, request, out) ==
  /\ users' = out.users
  /\ call' = [response |-> Respond(out.outcome), op |-> op, outcome |-> out.outcome,
              request |-> request, before |-> users]
  /\ UNCHANGED <<ANTHROPIC_AVAILABLE, self, constructed,
               environ, config_file, config_instance, tasks>>

Login ==
  \E email \in LoginEmails, password \in Passwords :
    LET request == [email |-> email, password |-> password]
    IN Serve("login", request, login(users, request))

GithubOauth ==
  \E code \in { "", "abc" }, token_response \in TokenResponses,
     response \in UserResponses :
    Serve("github_oauth",
          [response |-> response, code |-> code, token_response |-> token_response],
          github_oauth(users, code, token_response, response))

GetCurrentUser ==
  \E token \in Tokens :
    Serve("get_current_user", [token |-> token],
          [users |-> users, outcome |-> get_current_user(token)])

ValidateAccessToken ==
  \E token \in Tokens :
    Serve("validate_access_token", [token |-> token],
          [users |-> users, outcome |-> validate_access_token(users, token)])

SayHello ==
  \E token \in Tokens, name \in { "World", "" } :
    Serve("say_hello", [name |-> name, token |-> token],
          [users |-> users, outcome |-> say_hello(name, token)])

\* The requests of the authentication endpoints, served one at a time.
NextAuth ==
  \/ Login
  \/ GithubOauth
  \/ GetCurrentUser
  \/ ValidateAccessToken
  \/ SayHello

SpecAuth == InitConstruct /\ [][NextAuth]_vars

-----------------------------------------------------------------------------
(* Properties of the authentication endpoints.                             *)

AdminCredentials(request) ==
  request.email = "admin@superagi.com" /\ request.password = "password"

IssuesToken(response) ==
  /\ response.status_code = 200
  /\ "access_token" \in DOMAIN response.content

\* C18: POST /login answers with an access token exactly when the email is
\* admin@superagi.com and the password is "password"; every other pair of
\* credentials is answered 401 "Invalid credentials", carries no token and
\* leaves the user table as the request found it.
C18_LoginCredentials ==
  call.op = "login" =>
    /\ AdminCredentials(call.request) <=> IssuesToken(call.response)
    /\ AdminCredentials(call.request) =>
         call.response.content.access_token = create_access_token(call.request.email)
    /\ ~AdminCredentials(call.request) =>
         /\ call.response.status_code = 401
         /\ call.response.content.detail = "Invalid credentials"
         /\ "access_token" \notin DOMAIN call.response.content
         /\ users = call.before

\* The right email with a wrong password, refused while the admin row exists.
C18_Witness ==
  /\ call.op = "login"
  /\ call.request.email = "admin@superagi.com"
  /\ call.request.password = "Password"
  /\ call.response.status_code = 401
  /\ QueryFirst(users, "admin@superagi.com") # None
  /\ users = call.before

\* The email a request resolves to, None when it resolves to none.
EmailOf(c) ==
  IF c.op = "login" THEN Some(c.request.email)
  ELSE IF c.op # "github_oauth" \/ c.request.code = "" THEN None
  ELSE IF c.request.token_response.kind = "raise" \/ c.request.response.kind = "raise"
  THEN None
  ELSE IF ~c.request.token_response.ok \/ ~c.request.response.ok THEN None
  ELSE LET user_data == c.request.response.json
       IN IF Truthy(DictGet(user_data, "email", None)) THEN user_data.email
          ELSE IF HasKey(user_data, "login") THEN Some(user_data.login[1] \o "@github.com")
          ELSE None

OneRowPerEmail(table) ==
  \A i, j \in 1..Len(table) : table[i].email = table[j].email => i = j

\* C19: whatever POST /login and GET /github-oauth requests were served one
\* after the other, the user table holds at most one row per email; a request
\* adds at most one row, for the email it resolves to, and none when that
\* email already has a row.
C19_UpsertUserRow ==
  /\ OneRowPerEmail(users)
  /\ call.op \in { "login", "github_oauth" } =>
       /\ \/ users = call.before
          \/ /\ EmailOf(call) # None
             /\ Len(users) = Len(call.before) + 1
             /\ SubSeq(users, 1, Len(call.before)) = call.before
             /\ users[Len(users)].email = EmailOf(call)[1]
       /\ (EmailOf(call) # None /\ QueryFirst(call.before, EmailOf(call)[1]) # None)
            => users = call.before

\* The GitHub callback of a user whose email got its row from POST /login.
C19_Witness ==
  /\ call.op = "github_oauth"
  /\ EmailOf(call) = Some("admin@superagi.com")
  /\ QueryFirst(call.before, "admin@superagi.com") = Some(User(Some("SuperAGI Admin"),
                                                                "admin@superagi.com"))
  /\ call.response.first_time_login = Some("false")
  /\ users = call.before
  /\ Len(users) = 2

IsAuthJWTException(exc) == "AuthJWTException" \in Range(ExceptionMro(exc.cls))

Translated(response) ==
  /\ "untranslated" \notin DOMAIN response
  /\ "detail" \in DOMAIN response.content

\* C20 as stated: an HTTPException is answered with its status code and detail
\* and every other exception with 500 "Internal server error".
C20_AsStated ==
  call.op \in { "login", "github_oauth", "get_current_user" } /\ call.outcome.kind = "raise" =>
    LET exc == call.outcome.exc
    IN /\ Translated(call.response)
       /\ IF exc.cls = "HTTPException"
          THEN /\ call.response.status_code = exc.status_code
               /\ call.response.content.detail = exc.detail
          ELSE /\ call.response.status_code = 500
               /\ call.response.content.detail = "Internal server error"

\* C20: every exception that escapes an endpoint is answered with a JSON body:
\* an HTTPException with its status code and detail, an exception of
\* fastapi_jwt_auth with its status code and message, and every other
\* exception with 500 "Internal server error"; none is left untranslated.
C20_ExceptionsTranslated ==
  call.op \in { "login", "github_oauth", "get_current_user" } /\ call.outcome.kind = "raise" =>
    LET exc == call.outcome.exc
    IN /\ Translated(call.response)
       /\ CASE exc.cls = "HTTPException" ->
                 /\ call.response.status_code = exc.status_code
                 /\ call.response.content.detail = exc.detail
            [] IsAuthJWTException(exc) ->
                 /\ call.response.status_code = exc.status_code
                 /\ call.response.content.detail = exc.message
            [] OTHER ->
                 /\ call.response.status_code = 500
                 /\ call.response.content.detail = "Internal server error"

\* GET /user without an Authorization header: answered 401, not 500.
C20_Witness ==
  /\ call.op = "get_current_user"
  /\ call.request.token = None
  /\ call.outcome.kind = "raise"
  /\ call.outcome.exc.cls = "MissingTokenError"
  /\ call.response = JSONResponse(401, [detail |-> "Missing Authorization Header"])

-----------------------------------------------------------------------------
(* superagi/config/config.py                                               *)

LowerChar(c) ==
  IF \E i \in 1..Len(UpperCase) : UpperCase[i] = c
  THEN LowerCase[CHOOSE i \in 1..Len(UpperCase) : UpperCase[i] = c]
  ELSE c

\* str.lower() of a string
RECURSIVE Lower(_)
Lower(s) ==
  IF s = "" THEN "" ELSE LowerChar(SubSeq(s, 1, 1)) \o Lower(SubSeq(s, 2, Len(s)))

\* Two of the declared fields of Config: attribute, alias and default.
ConfigFields ==
  << [name |-> "env", default |-> "DEV", alias |-> "ENV"],
     [name |-> "jwt_secret_key", default |-> "secret", alias |-> "JWT_SECRET_KEY"] >>

IsAlias(key) == \E i \in 1..Len(ConfigFields) : ConfigFields[i].alias = key

\* case_sensitive=False: the environment variable of a field is matched without case.
EnvNamesOf(field, env) == { k \in DOMAIN env : Lower(k) = Lower(field.alias) }

\* The value of a declared field: the keyword argument under the field's alias
\* comes first, then the environment variable, then the default.
FieldValue(field, kwargs, env) ==
  IF field.alias \in DOMAIN kwargs THEN kwargs[field.alias]
  ELSE IF EnvNamesOf(field, env) # { } THEN env[CHOOSE k \in EnvNamesOf(field, env) : TRUE]
  ELSE field.default

\* Config(**kwargs) with os.environ = env: the attributes of the instance are the
\* declared fields and, with extra="allow", the keywords that are no alias,
\* under the name they were given.
Config(kwargs, env) ==
  LET fields == { ConfigFields[i].name : i \in 1..Len(ConfigFields) }
      extras == { k \in DOMAIN kwargs : ~IsAlias(k) }
  IN [a \in fields \cup extras |->
        IF a \in fields
        THEN FieldValue(ConfigFields[CHOOSE i \in 1..Len(ConfigFields) :
                                       ConfigFields[i].name = a], kwargs, env)
        ELSE kwargs[a]]

\* Config.load_from_yaml: file is None when config.yaml does not exist, else the
\* mapping yaml.safe_load returns; a missing file is created with an empty mapping.
load_from_yaml(file, env) ==
  LET config_data == IF file # None /\ DOMAIN file[1] # { } THEN file[1] ELSE <<>>
  IN [file |-> IF file = None THEN Some(<<>>) ELSE file,
      instance |-> Config(config_data, env)]

\* Config.get: getattr(self, key.lower(), default)
Config_get(instance, key, default) ==
  IF Lower(key) \in DOMAIN instance THEN instance[Lower(key)] ELSE default

\* get_config(key, default) on the global instance
get_config(key, default) == Config_get(config_instance[1], key, default)

\* The keys of the checked configurations: two declared fields and one key
\* that is no field.
ConfigKeys == { "ENV", "JWT_SECRET_KEY", "GITHUB_CLIENT_ID" }

EnvValueOf(key) ==
  CASE key = "ENV" -> "PROD" [] key = "JWT_SECRET_KEY" -> "env-secret" [] OTHER -> "env-client"

YamlValueOf(key) ==
  CASE key = "ENV" -> "STAGING" [] key = "JWT_SECRET_KEY" -> "yaml-secret" [] OTHER -> "yaml-client"

Environs == { [k \in D |-> EnvValueOf(k)] : D \in SUBSET ConfigKeys }

YamlFiles == { None } \cup { Some([k \in D |-> YamlValueOf(k)]) : D \in SUBSET ConfigKeys }

\* The process starts with some environment and some or no config.yaml.
InitConfig ==
  /\ ANTHROPIC_AVAILABLE = TRUE
  /\ self = NoInstance
  /\ constructed = NoInstance
  /\ call = [op |-> "none"]
  /\ users = <<>>
  /\ environ \in Environs
  /\ config_file \in YamlFiles
  /\ config_instance = None
  /\ tasks = <<>>

\* Importing the module builds the global instance.
ImportConfig ==
  /\ config_instance = None
  /\ LET loaded == load_from_yaml(config_file, environ)
     IN /\ config_instance' = Some(loaded.instance)
        /\ config_file' = loaded.file
  /\ call' = [op |-> "load_from_yaml"]
  /\ UNCHANGED <<ANTHROPIC_AVAILABLE, self, constructed, users, environ, tasks>>

GetConfig ==
  /\ config_instance # None
  /\ \E key \in ConfigKeys \cup { "env", "FRONTEND_URL" },
        default \in { None, Some("http://localhost:3000") } :
       call' = [result |-> Returned(get_config(key, default)), op |-> "get_config",
                args |-> [key |-> key, default |-> default]]
  /\ UNCHANGED <<ANTHROPIC_AVAILABLE, self, constructed, users, environ, config_file,
                 config_instance, tasks>>

\* FastAPI(...): the application object with the arguments create_app passes.
FastAPI(debug, docs_url, redoc_url) ==
  [debug |-> debug, docs_url |-> docs_url, redoc_url |-> redoc_url,
   user_middleware |-> <<>>]

add_middleware(app, middleware) ==
  [app EXCEPT !.user_middleware = Append(@, middleware)]

\* configure_database: the session middleware on the database URL.
configure_database(app) ==
  add_middleware(app, [cls |-> "DBSessionMiddleware"])

ProductionOrigins ==
  << "https://superagi.com", "https://app.superagi.com", "https://marketplace.superagi.com" >>

configure_middleware(app, env) ==
  LET trusted == IF env = "PROD"
                 THEN add_middleware(app, [cls |-> "TrustedHostMiddleware",
                                           allowed_hosts |-> << "*.superagi.com", "superagi.com",
                                                                "localhost" >>])
                 ELSE app
      origins == IF env = "DEV" THEN << "*" >> ELSE ProductionOrigins
  IN add_middleware(trusted, [cls |-> "CORSMiddleware", allow_origins |-> origins])

\* configure_jwt: AuthJWT.load_config calls the decorated function at once. Its
\* body calls get_config, which in configure_jwt names the function being
\* decorated, not yet bound: the call raises NameError, which load_config
\* turns into its TypeError.
configure_jwt(app) ==
  Raised(Exc("TypeError", "Config must be pydantic 'BaseSettings' or list of tuple"))

\* create_app: the application is returned when every step returned.
create_app(env) ==
  LET debug == env = "DEV"
      app == FastAPI(debug, IF debug THEN Some("/docs") ELSE None,
                     IF debug THEN Some("/redoc") ELSE None)
      configured == configure_middleware(configure_database(app), env)
      jwt == configure_jwt(configured)
  IN [result |-> IF jwt.kind = "raise" THEN jwt ELSE Returned(configured),
      built |-> configured]

CreateApp ==
  /\ config_instance # None
  /\ LET env == get_config("ENV", "DEV")
         out == create_app(env)
     IN call' = [result |-> out.result, op |-> "create_app", env |-> env,
                 built |-> out.built]
  /\ UNCHANGED <<ANTHROPIC_AVAILABLE, self, constructed, users, environ, config_file,
                 config_instance, tasks>>

NextConfig ==
  \/ ImportConfig
  \/ GetConfig
  \/ CreateApp

SpecConfig == InitConfig /\ [][NextConfig]_vars

-----------------------------------------------------------------------------
(* Properties of the configuration.                                        *)

FieldDefault(key) ==
  ConfigFields[CHOOSE i \in 1..Len(ConfigFields) : ConfigFields[i].alias = key].default

\* C21: get_config returns the environment's value for a key set both in
\* config.yaml and in the environment, the YAML value for a key set only in
\* config.yaml, and the field default for a field set in neither.
C21_EnvironmentOverridesYaml ==
  call.op = "get_config" /\ call.args.key \in ConfigKeys =>
    LET key == call.args.key
        yaml == config_file[1]
        value == call.result.value
    IN /\ (key \in DOMAIN yaml /\ key \in DOMAIN environ) => value = environ[key]
       /\ (key \in DOMAIN yaml /\ key \notin DOMAIN environ) => value = yaml[key]
       /\ (key \notin DOMAIN yaml /\ key \notin DOMAIN environ /\ IsAlias(key))
            => value = FieldDefault(key)

-----------------------------------------------------------------------------
(* Properties of the GitHub callback.                                      *)

\* The token exchange and the user request both answered ok.
BothSucceed(c) ==
  /\ c.op = "github_oauth"
  /\ c.request.code # ""
  /\ c.request.token_response.kind = "return" /\ c.request.token_response.ok
  /\ c.request.response.kind = "return" /\ c.request.response.ok

\* What the claim says of a callback that resolved to email.
UpsertsAndReports(c, table, email) ==
  LET existed == QueryFirst(c.before, email) # None
  IN /\ "first_time_login" \in DOMAIN c.response
     /\ c.response.url = frontend_url
     /\ c.response.access_token = Some(create_access_token(email))
     /\ c.response.first_time_login = Some("true") <=> ~existed
     /\ c.response.first_time_login = Some("false") <=> existed
     /\ existed => table = c.before
     /\ ~existed => /\ Len(table) = Len(c.before) + 1
                    /\ SubSeq(table, 1, Len(c.before)) = c.before
                    /\ table[Len(table)].email = email

\* C22 as stated: whenever both provider requests succeed, the callback
\* redirects with first_time_login=true and inserts a row exactly when the
\* resolved email had no row.
C22_AsStated ==
  BothSucceed(call) =>
    /\ EmailOf(call) # None
    /\ UpsertsAndReports(call, users, EmailOf(call)[1])

\* C22: when both provider requests succeed and the user object carries a
\* login, the callback resolves the email to the provider's email, or to
\* <login>@github.com when that is null, empty or absent, redirects with
\* first_time_login=true exactly when the email had no row and inserts a row in
\* exactly that case; a user object without login is answered 500 with the
\* table unchanged, unless its email already has a row.
C22_FirstTimeLogin ==
  BothSucceed(call) =>
    LET user_data == call.request.response.json
    IN IF HasKey(user_data, "login")
       THEN /\ EmailOf(call) = IF Truthy(DictGet(user_data, "email", None))
                               THEN user_data.email
                               ELSE Some(user_data.login[1] \o "@github.com")
            /\ UpsertsAndReports(call, users, EmailOf(call)[1])
       ELSE IF EmailOf(call) # None /\ QueryFirst(call.before, EmailOf(call)[1]) # None
       THEN UpsertsAndReports(call, users, EmailOf(call)[1])
       ELSE /\ call.response.status_code = 500
            /\ users = call.before

\* A second GitHub user without public email logs in for the first time.
C22_Witness ==
  /\ BothSucceed(call)
  /\ HasKey(call.request.response.json, "email")
  /\ call.request.response.json.email = None
  /\ Len(call.before) >= 1
  /\ users = Append(call.before, User(Some("The Octocat"), "octocat@github.com"))
  /\ call.response.first_time_login = Some("true")

\* The callback gave up: no code, or one of the provider requests answered not ok.
GaveUp(c) ==
  /\ c.op = "github_oauth"
  /\ \/ c.request.code = ""
     \/ /\ c.request.token_response.kind = "return"
        /\ ~c.request.token_response.ok
     \/ /\ c.request.token_response.kind = "return"
        /\ c.request.token_response.ok
        /\ c.request.response.kind = "return"
        /\ ~c.request.response.ok

\* C23: with an empty code, a token exchange that is not ok or a user request
\* that is not ok, the callback redirects to https://superagi.com/, issues no
\* JWT and leaves the user table unchanged.
C23_GiveUpRedirect ==
  GaveUp(call) =>
    /\ call.outcome = Returned(RedirectResponse("https://superagi.com/", None, None))
    /\ call.response.status_code = 307
    /\ call.response.url = "https://superagi.com/"
    /\ call.response.access_token = None
    /\ users = call.before

\* The provider refuses the user request after a successful token exchange.
C23_Witness ==
  /\ GaveUp(call)
  /\ call.request.code = "abc"
  /\ call.request.token_response.ok
  /\ ~call.request.response.ok
  /\ call.response.url = "https://superagi.com/"
  /\ Len(users) >= 1

-----------------------------------------------------------------------------
(* main.py: two requests in flight.  Every request is a task of the one      *)
(* event loop; login and github_oauth are coroutines, and a coroutine keeps *)
(* the loop until it awaits or ends.                                        *)

MaxTasks == 2

\* A variant in which the query is awaited, so that the loop may run another
\* task between the query and the insert.
AwaitsAfterQuery(pc) == pc = "queried"

\* The await points of the bodies of login and github_oauth: there is none,
\* the session and the requests library are called synchronously.
Awaits(pc) == FALSE

\* The requests that reach the query: the admin's login and callbacks whose
\* provider requests both answered ok.
ConcurrentRequests ==
  { [op |-> "login", request |-> [email |-> "admin@superagi.com", password |-> "password"]] }
    \cup { [op |-> "github_oauth", request |-> user_data] :
             user_data \in { u \in GithubUsers : HasKey(u, "login") } }

\* The email the body computes before its query.
user_email(task) ==
  IF task.op = "login" THEN task.request.email
  ELSE IF Truthy(DictGet(task.request, "email", None)) THEN task.request.email[1]
  ELSE task.request.login[1] \o "@github.com"

\* The row the body adds when its query found none.
NewUser(task) ==
  IF task.op = "login" THEN User(Some("SuperAGI Admin"), task.email[1])
  ELSE User(DictGet(task.request, "name", task.request.login), task.email[1])

\* What the body returns: the first_time_login of the callback follows db_user.
Returns(task) ==
  IF task.op = "login"
  THEN Returned([access_token |-> create_access_token(task.email[1])])
  ELSE Returned(RedirectResponse(frontend_url, Some(create_access_token(task.email[1])),
                                 IF task.db_user = None THEN Some("true") ELSE Some("false")))

\* The loop is free for task t when no other task is inside its body, or the
\* other is waiting at an await point.
LoopFree(t) ==
  \A u \in 1..Len(tasks) :
    (u # t /\ tasks[u].pc = "queried") => Awaits(tasks[u].pc)

\* A request arrives and becomes a task.
Arrive ==
  /\ Len(tasks) < MaxTasks
  /\ \E r \in ConcurrentRequests :
       tasks' = Append(tasks, [response |-> None, op |-> r.op, pc |-> "pending",
                               email |-> None, request |-> r.request, db_user |-> None])
  /\ UNCHANGED <<ANTHROPIC_AVAILABLE, self, constructed, call, users, environ,
                 config_file, config_instance>>

\* The loop starts the body of a task, which runs up to the result of its query.
Query ==
  \E t \in 1..Len(tasks) :
    /\ tasks[t].pc = "pending"
    /\ LoopFree(t)
    /\ tasks' = [tasks EXCEPT ![t].pc = "queried",
                              ![t].email = Some(user_email(tasks[t])),
                              ![t].db_user = QueryFirst(users, user_email(tasks[t]))]
    /\ UNCHANGED <<ANTHROPIC_AVAILABLE, self, constructed, call, users, environ,
                   config_file, config_instance>>

\* The body goes on from the result of the query to its return.
AddAndReturn ==
  \E t \in 1..Len(tasks) :
    /\ tasks[t].pc = "queried"
    /\ LoopFree(t)
    /\ users' = IF tasks[t].db_user = None THEN AddAndCommit(users, NewUser(tasks[t]))
                ELSE users
    /\ tasks' = [tasks EXCEPT ![t].pc = "done",
                              ![t].response = Some(Respond(Returns(tasks[t])))]
    /\ UNCHANGED <<ANTHROPIC_AVAILABLE, self, constructed, call, environ,
                   config_file, config_instance>>

NextConcurrent ==
  \/ Arrive
  \/ Query
  \/ AddAndReturn

SpecConcurrent == InitConstruct /\ [][NextConcurrent]_vars

RowsOf(email) == { i \in 1..Len(users) : users[i].email = email }

FirstTimers(email) ==
  { t \in 1..Len(tasks) :
      /\ tasks[t].pc = "done"
      /\ tasks[t].email = Some(email)
      /\ "first_time_login" \in DOMAIN tasks[t].response[1]
      /\ tasks[t].response[1].first_time_login = Some("true") }

\* C24: whatever the order in which the loop runs the tasks of requests that
\* resolve to the same email, the table gets at most one row for that email
\* and at most one request reports first_time_login=true.
C24_ConcurrentUpsert ==
  \A t \in 1..Len(tasks) :
    tasks[t].email # None =>
      /\ Cardinality(RowsOf(tasks[t].email[1])) <= 1
      /\ Cardinality(FirstTimers(tasks[t].email[1])) <= 1

\* A callback and a login for the admin's email in flight together: the login
\* arrived second and ran first, so the callback, pending all the while, found
\* the row; both are done and there is one row.
C24_Witness ==
  /\ Len(tasks) = 2
  /\ tasks[1].op = "github_oauth" /\ tasks[2].op = "login"
  /\ tasks[1].pc = "done" /\ tasks[2].pc = "done"
  /\ tasks[1].email = tasks[2].email
  /\ tasks[1].db_user # None /\ tasks[2].db_user = None
  /\ tasks[1].response[1].first_time_login = Some("false")
  /\ Cardinality(RowsOf("admin@superagi.com")) = 1

-----------------------------------------------------------------------------
(* superagi/llms/anthropic.py: the request chat_completion builds, over     *)
(* longer message lists than the calls above.                               *)

MaxConversion == 3

ConversionMessages ==
  { [role |-> "system", content |-> "Be brief"], [role |-> "system", content |-> "Be kind"],
    [role |-> "system", content |-> ""], [role |-> "user", content |-> "Hi"],
    [role |-> "assistant", content |-> "Hello"] }

InitConversion ==
  /\ Init
  /\ self.cls = "Anthropic"

\* chat_completion on message lists of up to MaxConversion messages, answered ok.
AnthropicConversion ==
  /\ self.cls = "Anthropic"
  /\ \E messages \in SeqsUpTo(ConversionMessages, MaxConversion),
        max_tokens \in { None, Some(0), Some(256) } :
       LET reply == [kind |-> "ok", content |-> << [text |-> "Hello!"] >>]
       IN Method("chat_completion", [messages |-> messages, max_tokens |-> max_tokens],
                 reply, Anthropic_chat_completion(self, messages, max_tokens, reply))

NextConversion == AnthropicConversion

SpecConversion == InitConversion /\ [][NextConversion]_vars

\* The positions of the messages of a list whose role is not system.
NonSystem(messages) == { i \in 1..Len(messages) : messages[i].role # "system" }

SystemContents(messages) ==
  { messages[i].content : i \in (1..Len(messages)) \ NonSystem(messages) }

\* The position in the list of the k-th message that is not a system message.
Position(messages, k) ==
  CHOOSE i \in NonSystem(messages) :
    Cardinality({ j \in NonSystem(messages) : j <= i }) = k

LastSystem(messages) ==
  messages[CHOOSE i \in (1..Len(messages)) \ NonSystem(messages) :
             \A j \in (1..Len(messages)) \ NonSystem(messages) : j <= i]

ConversionCall == call.op = "chat_completion" /\ call.cls = "Anthropic"

\* C25: the request of Anthropic.chat_completion carries every message that is
\* not a system message, role and content unchanged and in the original
\* order, carries no system message in its list, carries the system
\* parameter only when some system message has non-empty content, and with
\* system messages present the parameter is the content of the last one
\* (absent when that content is empty).
C25_MessageConversion ==
  ConversionCall =>
    LET messages == call.args.messages
        sent == call.sent[1]
    IN /\ Len(sent.messages) = Cardinality(NonSystem(messages))
       /\ \A k \in 1..Len(sent.messages) :
            /\ sent.messages[k].role = messages[Position(messages, k)].role
            /\ sent.messages[k].content = messages[Position(messages, k)].content
            /\ sent.messages[k].role # "system"
       /\ sent.system # None =>
            \E c \in SystemContents(messages) : c # "" /\ sent.system = Some(c)
       /\ SystemContents(messages) # { } =>
            sent.system = IF LastSystem(messages).content # ""
                          THEN Some(LastSystem(messages).content) ELSE None
       /\ SystemContents(messages) = { } => sent.system = None

\* Two system messages around a user message: the later content is sent.
C25_Witness ==
  /\ ConversionCall
  /\ call.args.messages = << [role |-> "system", content |-> "Be brief"],
                             [role |-> "user", content |-> "Hi"],
                             [role |-> "system", content |-> "Be kind"] >>
  /\ call.sent[1].system = Some("Be kind")
  /\ call.sent[1].messages = << [role |-> "user", content |-> "Hi"] >>

\* C26: the request carries the max_tokens of the call when one is given and
\* is not 0, and the max_tokens of the instance when the call gives none or 0.
C26_MaxTokens ==
  ConversionCall =>
    LET max_tokens == call.args.max_tokens
    IN /\ (max_tokens # None /\ max_tokens # Some(0)) =>
            call.sent[1].max_tokens = max_tokens[1]
       /\ (max_tokens = None \/ max_tokens = Some(0)) =>
            /\ call.sent[1].max_tokens = constructed.max_tokens
            /\ call.sent[1].max_tokens # 0

\* A call with max_tokens=0 on an instance built with max_tokens=1024.
C26_Witness ==
  /\ ConversionCall
  /\ call.args.max_tokens = Some(0)
  /\ constructed.max_tokens = 1024
  /\ call.sent[1].max_tokens = 1024

-----------------------------------------------------------------------------
(* Properties of the streams of Grok and Groq.                             *)

HasContent(chunk) ==
  /\ Len(chunk.choices) > 0
  /\ chunk.choices[1].delta.content # None
  /\ chunk.choices[1].delta.content # Some("")

\* The contents the consumer is owed for the vendor chunks received so far.
RECURSIVE ContentsOf(_)
ContentsOf(chunks) ==
  IF chunks = <<>> THEN <<>>
  ELSE IF HasContent(Head(chunks))
  THEN << Head(chunks).choices[1].delta.content[1] >> \o ContentsOf(Tail(chunks))
  ELSE ContentsOf(Tail(chunks))

StreamCall ==
  /\ call.op = "stream_chat_completion"
  /\ "pc" \in DOMAIN call

\* C27: the stream of Grok and Groq holds one output chunk for each vendor
\* chunk received whose first-choice delta content is non-empty, with that
\* content, in the vendor's order, and nothing for the others; the request is
\* sent with stream=True whatever the caller passed; a failure of the vendor
\* or of the indexing of a chunk, before or during the iteration, raises
\* "<Grok|Groq> streaming error: ..." and keeps the chunks yielded before it.
C27_StreamChunks ==
  StreamCall =>
    /\ Len(call.yielded) = Len(ContentsOf(call.received))
    /\ \A i \in 1..Len(call.yielded) :
         call.yielded[i] =
           [choices |-> << [delta |-> [content |-> ContentsOf(call.received)[i]]] >>]
    /\ call.pc # "created" =>
         /\ Len(call.sent) = 1
         /\ call.sent[1].kwargs.stream = Some(TRUE)
    /\ call.pc = "raised" <=> call.result.kind = "raise"
    /\ call.pc = "raised" =>
         /\ call.result.exc.cls = "Exception"
         /\ StartsWith(call.result.exc.msg, call.cls \o " streaming error: ")

\* A caller passed stream=False; one chunk with content and one without were
\* received, then the stream broke: one chunk yielded, then the error.
C27_Witness ==
  /\ StreamCall
  /\ call.args.kwargs.stream = Some(FALSE)
  /\ call.pc = "raised"
  /\ Len(call.received) = 2
  /\ HasContent(call.received[1]) /\ ~HasContent(call.received[2])
  /\ Len(call.received[2].choices) > 0
  /\ Len(call.yielded) = 1
  /\ call.result.kind = "raise"

-----------------------------------------------------------------------------
(* Properties of the protected endpoints.                                  *)

\* The request carries a token that decodes to a subject.
ValidJWT(request) ==
  /\ request.token # None
  /\ \E email \in { "admin@superagi.com", "octocat@github.com" } :
       request.token = Some(create_access_token(email))

SubjectOf(request) ==
  CHOOSE email \in { "admin@superagi.com", "octocat@github.com" } :
    request.token = Some(create_access_token(email))

\* C28: GET /user and GET /hello/{name} answer with their payload exactly when
\* the request carries a valid JWT, and with the error of the JWT library
\* otherwise; GET /validate-access-token answers 401 "Invalid token" whenever
\* the token is missing or invalid and the subject's row otherwise; none of
\* the three changes the user table.
C28_ProtectedEndpoints ==
  /\ call.op \in { "get_current_user", "say_hello", "validate_access_token" } =>
       users = call.before
  /\ call.op = "get_current_user" =>
       /\ call.response.status_code = 200 <=> ValidJWT(call.request)
       /\ ValidJWT(call.request) =>
            call.response.content = [user |-> SubjectOf(call.request)]
       /\ ~ValidJWT(call.request) => "user" \notin DOMAIN call.response.content
  /\ call.op = "say_hello" =>
       /\ call.response.status_code = 200 <=> ValidJWT(call.request)
       /\ ValidJWT(call.request) =>
            call.response.content = [message |-> "Hello " \o call.request.name]
       /\ ~ValidJWT(call.request) => "message" \notin DOMAIN call.response.content
  /\ call.op = "validate_access_token" =>
       /\ ~ValidJWT(call.request) =>
            /\ call.response.status_code = 401
            /\ call.response.content.detail = "Invalid token"
       /\ ValidJWT(call.request) =>
            /\ call.response.status_code = 200
            /\ call.response.content.current_user
                 = QueryFirst(users, SubjectOf(call.request))

\* A token that does not decode, presented while the admin's row exists.
C28_Witness ==
  /\ call.op = "validate_access_token"
  /\ call.request.token = Some("garbage")
  /\ call.response.status_code = 401
  /\ call.response.content.detail = "Invalid token"
  /\ QueryFirst(users, "admin@superagi.com") # None

-----------------------------------------------------------------------------
(* Properties of create_app.                                               *)

MiddlewareOf(app, cls) ==
  { i \in 1..Len(app.user_middleware) : app.user_middleware[i].cls = cls }

\* What the claim says of an application built for env.
Hardened(app, env) ==
  /\ Cardinality(MiddlewareOf(app, "CORSMiddleware")) = 1
  /\ \A i \in MiddlewareOf(app, "CORSMiddleware") :
       app.user_middleware[i].allow_origins
         = IF env = "DEV" THEN << "*" >> ELSE ProductionOrigins
  /\ app.docs_url = IF env = "DEV" THEN Some("/docs") ELSE None
  /\ app.redoc_url = IF env = "DEV" THEN Some("/redoc") ELSE None
  /\ MiddlewareOf(app, "TrustedHostMiddleware") # { } <=> env = "PROD"

\* C29: create_app returns an application whose wildcard CORS origin and docs
\* pages are enabled exactly when ENV is DEV, whose CORS origins are the three
\* superagi.com origins otherwise, and whose trusted-host restriction is
\* installed exactly when ENV is PROD.
C29_HardeningByEnv ==
  call.op = "create_app" =>
    /\ call.result.kind = "return"
    /\ Hardened(call.result.value, call.env)

-----------------------------------------------------------------------------
(* The round trip of the source names.                                     *)

\* The values the enum's definition and test_str_representation give.
ValueOf(member) ==
  CASE member = "GooglePalm" -> <<"G", "o", "o", "g", "l", "e", " ", "P", "a", "l", "m">>
    [] member = "OpenAI" -> <<"O", "p", "e", "n", "A", "i">>
    [] member = "Replicate" -> <<"R", "e", "p", "l", "i", "c", "a", "t", "e">>
    [] member = "HuggingFace" -> <<"H", "u", "g", "g", "i", "n", "g", " ", "F", "a", "c", "e">>
    [] member = "LocalLLM" -> <<"L", "o", "c", "a", "l", " ", "L", "L", "M">>
    [] member = "Anthropic" -> <<"A", "n", "t", "h", "r", "o", "p", "i", "c">>

\* C30: str(m) is the value of m for every member m of ModelSourceType, and
\* get_model_source_type(str(m)) returns m, also for the members whose value
\* has a space or differs in case from the member's name.
C30_SourceNameRoundTrip ==
  /\ call.op = "__str__" => call.result = Returned(ValueOf(call.member))
  /\ (call.op = "get_model_source_type" /\ "member" \in DOMAIN call) =>
       /\ call.name = ValueOf(call.member)
       /\ call.result = Returned(call.member)

\* The round trip of Local LLM, whose value has a space the name has not.
C30_Witness ==
  /\ call.op = "get_model_source_type"
  /\ "member" \in DOMAIN call
  /\ call.member = "LocalLLM"
  /\ call.name = <<"L", "o", "c", "a", "l", " ", "L", "L", "M">>
  /\ call.result = Returned("LocalLLM")
====
